---- MODULE Spec2Model ----
(***************************************************************************)
(* Posta backend: the incremental sync controller (sync_threads_incremental *)
(* and perform_full_sync in commands.rs), the history delta query           *)
(* (GmailClient::get_history_changes), the batch fetch engine               *)
(* (GmailClient::batch_get_thread_details) and the sync_state table of the  *)
(* SQLite cache (CacheDb::get_history_id / set_history_id /                 *)
(* clear_history_id).                                                       *)
(*                                                                         *)
(* Strings that the code inspects (error messages) are sequences of words; *)
(* Option<T> is a sequence of length 0 (None) or 1 (Some).                  *)
(***************************************************************************)
EXTENDS Integers, Sequences, FiniteSets, TLC

\* ---------------------------------------------------------------- bounds
\* number of invocations of the command that are tracked at a time
MaxProcs == 1
\* history ids are opaque strings in the code; the model uses 1..MaxHistoryId
MaxHistoryId == 2
\* most pages one delta query is answered with
MaxPages == 2
\* gmail/mod.rs:11 sets MAX_BATCH_SIZE = 50; scaled down so that a list of
\* three thread ids already spans two chunks
MAX_BATCH_SIZE == 2
\* longest id list batch_get_thread_details is called with on its own
MaxBatchIds == 5

\* ---------------------------------------------------------------- universes
Procs == 1..MaxProcs
Accounts == {"A", "B"}
ThreadIds == {"T1", "T2"}
MsgIds == {"M9"}
HistoryIds == 1..MaxHistoryId
PageTokens == {"P"}

None == <<>>
Some(v) == <<v>>
Option(S) == {None} \cup {Some(v) : v \in S}

\* the four event lists of a HistoryItem
EventKinds == {"messagesAdded", "messagesDeleted", "labelsAdded", "labelsRemoved"}

\* ---------------------------------------------------------------- helpers
\* str::contains, on word sequences: the word occurs in the message
contains(e, w) == \E i \in DOMAIN e : e[i] = w

Range(s) == {s[i] : i \in DOMAIN s}

\* HashSet::into_iter().collect(): every element once, in an unspecified order
Orders(S) == {s \in [1..Cardinality(S) -> S] : \A i, j \in 1..Cardinality(S) : s[i] = s[j] => i = j}

Min(a, b) == IF a <= b THEN a ELSE b

\* the subsequence of s whose elements are in S, order kept
RECURSIVE Restrict(_, _)
Restrict(s, S) ==
  IF s = <<>> THEN <<>>
  ELSE (IF Head(s) \in S THEN <<Head(s)>> ELSE <<>>) \o Restrict(Tail(s), S)

\* ---------------------------------------------------------------- error texts
\* texts a transport error, a response body or a decoder error can carry
NetErrTexts == {<<"connection", "refused">>, <<"certificate", "has", "expired">>}
Bodies == {<<>>, <<"Token", "expired">>}
OtherStatuses == {"401", "500"}
JsonErrTexts == {<<"missing", "field", "historyId">>}
DbErrTexts == {<<"Lock", "error">>}
TokenErrTexts == {<<"Auth", "not", "configured">>}

ErrExpired == <<"History", "ID", "expired">>
ErrRequestFailed(t) == <<"Request", "failed:">> \o t
ErrApi(status, body) == <<"API", "error", status, ":">> \o body
ErrParseHistory(t) == <<"Failed", "to", "parse", "history:">> \o t
ErrParseProfile(t) == <<"Failed", "to", "parse", "profile:">> \o t
ErrGetHistoryId(e) == <<"Failed", "to", "get", "history", "ID:">> \o e

\* ---------------------------------------------------------------- state
VARIABLES
  stored,        \* sync_state table: account -> Option(history_id)
  proc,          \* per invocation of sync_threads_incremental: locals and position
  cleared,       \* history: "yes" once the account's row was deleted and not written
                 \* since, "yes_then_other" once another account's row was written after that
  pendingRetry,  \* history: Some(old cursor) after a delta sync failed to persist
  call,          \* one invocation of a function or command that is checked on
                 \* its own: its input, its locals and its position
  db,            \* the accounts and cards tables of the SQLite cache
  icloud         \* the key-value store: Option of the value under each key

vars == <<stored, proc, cleared, pendingRetry, call, db, icloud>>

\* no such invocation is in progress
NoCall == [fn |-> "none"]

\* no accounts and no cards; nothing stored under either key
EmptyDb == [accounts |-> <<>>, cards |-> {}]
EmptyICloud == [posta_cards |-> <<>>, posta_account_mappings |-> <<>>]

\* call while the mailboxes' history ids are followed: historyId is each
\* mailbox's current history id at the server; newest and overlapped are history,
\* the most recent cursor the account's row ever held and whether two
\* invocations for the account were ever in flight together
Followed(historyId, newest) ==
  [fn |-> "server", historyId |-> historyId, newest |-> newest,
   overlapped |-> [a \in DOMAIN historyId |-> FALSE]]

\* the more recent of two optional cursors
Newest(h, s) ==
  IF s = None THEN h
  ELSE IF h = None THEN s
  ELSE IF s[1] > h[1] THEN s ELSE h

\* history: the rows of the sync_state table became st
Written(st) ==
  IF call.fn = "server"
  THEN [call EXCEPT !.newest = [a \in DOMAIN st |-> Newest(call.newest[a], st[a])]]
  ELSE call

IdleProc ==
  [ pc |-> "idle",
    account_id |-> "",
    stored_history_id |-> None,
    cursor_read |-> FALSE,
    page_token |-> None,
    next_page_token |-> None,
    all_modified_thread_ids |-> {},
    all_deleted_message_ids |-> {},
    new_history_id |-> None,
    changes |-> None,
    thread_ids |-> <<>>,
    next |-> 1,
    all_threads |-> <<>>,
    batch_result |-> None,
    result |-> None,
    \* history variables of the invocation
    histReqs |-> <<>>,
    lastHid |-> None,
    profileReqs |-> 0,
    profileHid |-> None,
    touched |-> {},
    deletedThreads |-> {},
    repeated |-> FALSE,
    batchReqs |-> <<>>,
    failedChunks |-> {},
    singleReqs |-> <<>>,
    obtained |-> {},
    delta_err |-> None,
    persist_failed |-> FALSE,
    afterClear |-> "no",
    retryOf |-> None ]

Init ==
  /\ stored \in [Accounts -> Option(HistoryIds)]
  /\ proc = [p \in Procs |-> IdleProc]
  /\ cleared = [a \in Accounts |-> "no"]
  /\ pendingRetry = [a \in Accounts |-> None]
  /\ db = EmptyDb /\ icloud = EmptyICloud
  /\ call = NoCall

\* commands run one at a time
NoOtherRunning(p) == \A q \in DOMAIN proc \ {p} : proc[q].pc = "idle"

\* another invocation for account a has read the cursor and not returned
InFlight(p, a) ==
  \E q \in DOMAIN proc \ {p} : proc[q].pc \notin {"idle", "done"} /\ proc[q].account_id = a

\* history: invocation p starts on account a
Started(p, a) ==
  IF call.fn = "server" /\ InFlight(p, a)
  THEN [call EXCEPT !.overlapped[a] = TRUE]
  ELSE call

Ok(v) == [tag |-> "Ok"] @@ v
Err(e) == [tag |-> "Err", msg |-> e]

Finish(p, r) == [proc[p] EXCEPT !.pc = "done", !.result = Some(r)]

\* ---------------------------------------------------------------- sqlite.rs
\* a SELECT that lost its WHERE clause: any account's row answers
get_history_id_anyrow(a) ==
  IF stored[a] # None THEN stored[a]
  ELSE IF \E b \in Accounts : stored[b] # None
       THEN stored[CHOOSE b \in Accounts : stored[b] # None]
       ELSE None

\* CacheDb::get_history_id
get_history_id(a) == stored[a]

\* INSERT OR IGNORE: an existing row is kept
set_history_id_ignore(a, h, ok) ==
  IF ok /\ stored[a] = None THEN [stored EXCEPT ![a] = Some(h)] ELSE stored

\* UPDATE: only an existing row is written
set_history_id_update(a, h, ok) ==
  IF ok /\ stored[a] # None THEN [stored EXCEPT ![a] = Some(h)] ELSE stored

\* the error is reported after the row was written
set_history_id_dirty(a, h, ok) == [stored EXCEPT ![a] = Some(h)]

\* the statement lost its WHERE clause: every row takes the new cursor
set_history_id_everyrow(a, h, ok) ==
  IF ok THEN [b \in Accounts |-> IF b = a \/ stored[b] # None THEN Some(h) ELSE stored[b]]
  ELSE stored

\* CacheDb::set_history_id: INSERT OR REPLACE of the account's row; a failed
\* statement (lock or database error) leaves the table as it was
set_history_id(a, h, ok) == IF ok THEN [stored EXCEPT ![a] = Some(h)] ELSE stored

\* CacheDb::clear_history_id: DELETE of the account's row
clear_history_id(a, ok) == IF ok THEN [stored EXCEPT ![a] = None] ELSE stored

\* history: the account's row was written
ClearedAfterSet(a) ==
  [b \in Accounts |-> IF b = a THEN "no"
                      ELSE IF cleared[b] = "yes" THEN "yes_then_other" ELSE cleared[b]]

\* ---------------------------------------------------------------- commands.rs
\* sync_threads_incremental, lines 559-564: read the stored history id
ReadCursor(p, a, seq) ==
  /\ proc[p].pc = "idle"
  /\ seq => NoOtherRunning(p)
  /\ \/ /\ proc' = [proc EXCEPT ![p] =
                      [IdleProc EXCEPT !.pc = "token",
                                       !.account_id = a,
                                       !.stored_history_id = get_history_id(a),
                                       !.cursor_read = TRUE,
                                       !.afterClear = cleared[a],
                                       !.retryOf = pendingRetry[a]]]
        /\ pendingRetry' = [pendingRetry EXCEPT ![a] = None]
     \/ /\ \E t \in DbErrTexts :
             proc' = [proc EXCEPT ![p] =
                        [IdleProc EXCEPT !.pc = "done", !.account_id = a,
                                         !.result = Some(Err(t))]]
        /\ UNCHANGED pendingRetry
  /\ UNCHANGED <<stored, cleared>>
  /\ call' = Started(p, a)
  /\ UNCHANGED <<db, icloud>>

\* the command has returned: the invocation's locals are dropped
Return(p) ==
  /\ proc[p].pc = "done"
  /\ proc' = [proc EXCEPT ![p] = IdleProc]
  /\ UNCHANGED <<stored, cleared, pendingRetry>>
  /\ UNCHANGED <<call, db, icloud>>


\* sync_threads_incremental, lines 566-569: get_access_token, then the match on
\* the stored history id
GetAccessToken(p) ==
  /\ proc[p].pc = "token"
  /\ \/ proc' = [proc EXCEPT ![p] =
                   IF proc[p].stored_history_id # None
                   THEN [@ EXCEPT !.pc = "history",
                                  \* gmail/mod.rs:1199
                                  !.new_history_id = proc[p].stored_history_id]
                   ELSE [@ EXCEPT !.pc = "profile"]]
     \/ \E t \in TokenErrTexts : proc' = [proc EXCEPT ![p] = Finish(p, Err(t))]
  /\ UNCHANGED <<stored, cleared, pendingRetry>>
  /\ UNCHANGED <<call, db, icloud>>

\* ---------------------------------------------------------------- gmail/mod.rs
\* the historyId an answer to invocation p can carry: the mailbox's current one
\* where it is followed, any otherwise
ServedIds(p) ==
  IF call.fn = "server" THEN {call.historyId[proc[p].account_id]} ELSE HistoryIds

\* what the history endpoint can answer to one page request of invocation p
HistoryResponses(p, more) ==
       [kind : {"network"}, text : NetErrTexts]
  \cup [kind : {"status"}, status : {"404"} \cup OtherStatuses, body : Bodies]
  \cup [kind : {"badjson"}, text : JsonErrTexts]
  \cup [kind : {"ok"}, historyId : ServedIds(p),
        nextPageToken : IF more THEN Option(PageTokens) ELSE {None}]

\* get_history_changes, lines 1213-1235: the Err a failed page request returns
HistoryError(resp) ==
  CASE resp.kind = "network" -> ErrRequestFailed(resp.text)
    [] resp.kind = "status" /\ resp.status = "404" -> ErrExpired
    [] resp.kind = "status" /\ resp.status # "404" -> ErrApi(resp.status, resp.body)
    [] resp.kind = "badjson" -> ErrParseHistory(resp.text)

\* the guard looks for a differently capitalised word
IsExpired_wrongcase(e) == contains(e, "Expired")

\* commands.rs:609, the guard of the expiry arm
IsExpired(e) == contains(e, "expired")

\* get_history_changes, lines 1203-1237: one page request and its status checks;
\* commands.rs:609-619 for a failed query
HistoryRequest(p) ==
  /\ proc[p].pc = "history"
  /\ \E resp \in HistoryResponses(p, Len(proc[p].histReqs) + 1 < MaxPages) :
       LET me == [proc[p] EXCEPT
                    !.histReqs = Append(@, [startHistoryId |-> proc[p].stored_history_id[1],
                                            pageToken |-> proc[p].page_token])]
       IN IF resp.kind = "ok"
          THEN proc' = [proc EXCEPT ![p] =
                          [me EXCEPT !.pc = "items",
                                     !.new_history_id = Some(resp.historyId),
                                     !.lastHid = Some(resp.historyId),
                                     !.next_page_token = resp.nextPageToken]]
          ELSE LET e == HistoryError(resp)
                   \* the locals of get_history_changes are dropped with its Err
                   failed == [me EXCEPT !.delta_err = Some([kind |-> resp.kind,
                                            status |-> IF resp.kind = "status" THEN resp.status ELSE "",
                                            msg |-> e]),
                                        !.page_token = None,
                                        !.new_history_id = None,
                                        !.lastHid = None,
                                        !.all_modified_thread_ids = {},
                                        !.all_deleted_message_ids = {},
                                        !.touched = {},
                                        !.deletedThreads = {},
                                        !.repeated = FALSE]
               IN proc' = [proc EXCEPT ![p] =
                             IF IsExpired(e)
                             THEN [failed EXCEPT !.pc = "clear"]
                             ELSE [failed EXCEPT !.pc = "done", !.result = Some(Err(e))]]
  /\ UNCHANGED <<stored, cleared, pendingRetry>>
  /\ UNCHANGED <<call, db, icloud>>

\* the labelsRemoved loop is missing
ModifiedAfter_noLabelsRemoved(modified, kind, thread_id) ==
  IF kind = "labelsRemoved" THEN modified ELSE modified \cup Range(thread_id)

\* get_history_changes, lines 1240-1276: the thread ids one event adds to
\* all_modified_thread_ids
ModifiedAfter(modified, kind, thread_id) ==
  CASE kind = "messagesAdded" -> modified \cup Range(thread_id)
    [] kind = "messagesDeleted" -> modified \cup Range(thread_id)
    [] kind = "labelsAdded" -> modified \cup Range(thread_id)
    [] kind = "labelsRemoved" -> modified \cup Range(thread_id)

\* get_history_changes, lines 1251-1258: only messagesDeleted records message ids
DeletedAfter(deleted, kind, id) ==
  IF kind = "messagesDeleted" THEN deleted \cup {id} ELSE deleted

\* get_history_changes, lines 1239-1277: one event of the current page, which
\* carries any number of them
HistoryItem(p) ==
  /\ proc[p].pc = "items"
  /\ \E kind \in EventKinds, thread_id \in Option(ThreadIds), id \in MsgIds :
       proc' = [proc EXCEPT ![p] =
                  [@ EXCEPT !.all_modified_thread_ids = ModifiedAfter(@, kind, thread_id),
                            !.all_deleted_message_ids = DeletedAfter(@, kind, id),
                            !.touched = @ \cup Range(thread_id),
                            !.deletedThreads = IF kind = "messagesDeleted"
                                               THEN @ \cup Range(thread_id) ELSE @,
                            !.repeated = @ \/ (Range(thread_id) \cap proc[p].touched # {})]]
  /\ UNCHANGED <<stored, cleared, pendingRetry>>
  /\ UNCHANGED <<call, db, icloud>>

\* get_history_changes, lines 1279-1289: after the last event of the page,
\* follow the page token or return
PageEnd(p) ==
  /\ proc[p].pc = "items"
  /\ IF proc[p].next_page_token # None
     THEN proc' = [proc EXCEPT ![p] =
                     [@ EXCEPT !.pc = "history",
                               !.page_token = proc[p].next_page_token,
                               !.next_page_token = None]]
     ELSE \E m \in Orders(proc[p].all_modified_thread_ids),
             d \in Orders(proc[p].all_deleted_message_ids) :
            proc' = [proc EXCEPT ![p] =
                       [@ EXCEPT \* commands.rs:582
                                 !.pc = IF m = <<>> THEN "persist" ELSE "batch_call",
                                 !.thread_ids = m,
                                 !.changes = Some([modified_thread_ids |-> m,
                                                   deleted_message_ids |-> d,
                                                   new_history_id |-> proc[p].new_history_id[1]]),
                                 !.page_token = None,
                                 !.all_modified_thread_ids = {},
                                 !.all_deleted_message_ids = {}]]
  /\ UNCHANGED <<stored, cleared, pendingRetry>>
  /\ UNCHANGED <<call, db, icloud>>


\* the Thread a fetched ThreadDetail reduces to (gmail/mod.rs:510-522, 791-803):
\* account_id is left empty for the caller
ThreadOf(t) == [gmail_thread_id |-> t, account_id |-> ""]

\* the chunk takes one id more than the ceiling
ChunkAt_oversize(thread_ids, i) == SubSeq(thread_ids, i, Min(i + MAX_BATCH_SIZE, Len(thread_ids)))

\* slice::chunks(MAX_BATCH_SIZE): the chunk that starts at position i
ChunkAt(thread_ids, i) == SubSeq(thread_ids, i, Min(i + MAX_BATCH_SIZE - 1, Len(thread_ids)))

\* what one batch request can come back with: a transport error, a non-2xx
\* status, a Content-Type without boundary, or a multipart body with one part
\* per sub-request, each part decodable as a ThreadDetail or not
BatchOutcomes(chunk) ==
       [kind : {"network", "status", "noboundary"}]
  \cup [kind : {"ok"}, parsed : SUBSET Range(chunk)]

\* execute_batch_thread_fetch, lines 572-601 with parse_batch_response,
\* lines 612-656: Err for a failed request, else the Threads of the parts that
\* decode, in part order
execute_batch_thread_fetch(chunk, outcome) ==
  IF outcome.kind = "ok"
  THEN [tag |-> "Ok", threads |-> [i \in 1..Len(Restrict(chunk, outcome.parsed)) |->
                                     ThreadOf(Restrict(chunk, outcome.parsed)[i])]]
  ELSE [tag |-> "Err", msg |-> <<"Batch", outcome.kind>>]

\* the fallback walks the whole id list
FallbackIds_all(thread_ids, chunk) == thread_ids

\* batch_get_thread_details, line 541: the ids fetched one by one after the
\* batch request of chunk failed
FallbackIds(thread_ids, chunk) == chunk

\* the Threads of the fallback are not pushed
SequentialFetch_discard(ids, fetched) == <<>>

\* batch_get_thread_details, lines 541-545: the sequential fallback pushes the
\* Thread of every id whose get_thread_detail succeeded
SequentialFetch(ids, fetched) ==
  [i \in 1..Len(Restrict(ids, fetched)) |-> ThreadOf(Restrict(ids, fetched)[i])]

\* the batch error is propagated with `?`
ChunkStep_propagate(all_threads, thread_ids, chunk, batch, fetched) ==
  IF batch.tag = "Ok"
  THEN [ret |-> None, all_threads |-> all_threads \o batch.threads]
  ELSE [ret |-> Some(batch), all_threads |-> all_threads]

\* batch_get_thread_details, lines 536-547: one iteration of the chunk loop;
\* ret is Some only when the iteration leaves the function
ChunkStep(all_threads, thread_ids, chunk, batch, fetched) ==
  IF batch.tag = "Ok"
  THEN [ret |-> None, all_threads |-> all_threads \o batch.threads]
  ELSE [ret |-> None,
        all_threads |-> all_threads \o SequentialFetch(FallbackIds(thread_ids, chunk), fetched)]

\* commands.rs:589-591
SetAccountId(threads, a) == [i \in DOMAIN threads |-> [threads[i] EXCEPT !.account_id = a]]

\* batch_get_thread_details, lines 527-532: an empty list returns at once
BatchCall(p) ==
  /\ proc[p].pc = "batch_call"
  /\ proc' = [proc EXCEPT ![p] =
                IF proc[p].thread_ids = <<>>
                THEN [@ EXCEPT !.pc = "persist",
                               !.batch_result = Some([tag |-> "Ok", threads |-> <<>>])]
                ELSE [@ EXCEPT !.pc = "batch", !.next = 1, !.all_threads = <<>>]]
  /\ UNCHANGED <<stored, cleared, pendingRetry>>
  /\ UNCHANGED <<call, db, icloud>>

\* batch_get_thread_details, lines 535-550: one chunk per step; after the last
\* chunk the function returns Ok(all_threads) to its caller
BatchChunk(p) ==
  /\ proc[p].pc = "batch"
  /\ LET thread_ids == proc[p].thread_ids
         i == proc[p].next
         chunk == ChunkAt(thread_ids, i)
     IN \E outcome \in BatchOutcomes(chunk) :
        \E fetched \in IF outcome.kind = "ok" THEN {{}}
                       ELSE SUBSET Range(FallbackIds(thread_ids, chunk)) :
          LET batch == execute_batch_thread_fetch(chunk, outcome)
              step == ChunkStep(proc[p].all_threads, thread_ids, chunk, batch, fetched)
              last == i + Len(chunk) > Len(thread_ids)
              ret == IF step.ret # None THEN step.ret
                     ELSE IF last THEN Some([tag |-> "Ok", threads |-> step.all_threads])
                     ELSE None
          IN proc' = [proc EXCEPT ![p] =
               [@ EXCEPT !.next = i + Len(chunk),
                         !.all_threads = step.all_threads,
                         !.batch_result = ret,
                         !.pc = IF ret # None THEN "persist" ELSE "batch",
                         !.batchReqs = Append(@, chunk),
                         !.failedChunks = IF batch.tag = "Err" THEN @ \cup {Len(proc[p].batchReqs) + 1} ELSE @,
                         !.singleReqs = IF batch.tag = "Err"
                                        THEN @ \o FallbackIds(thread_ids, chunk) ELSE @,
                         !.obtained = @ \cup (IF batch.tag = "Ok" THEN outcome.parsed ELSE fetched)]]
  /\ UNCHANGED <<stored, cleared, pendingRetry>>
  /\ UNCHANGED <<call, db, icloud>>

\* Result::unwrap_or_default at commands.rs:586
unwrap_or_default(r) == IF r # None /\ r[1].tag = "Ok" THEN r[1].threads ELSE <<>>

\* sync_threads_incremental, lines 594-607: persist the new cursor, build the result
SetHistoryId(p) ==
  /\ proc[p].pc = "persist"
  /\ LET a == proc[p].account_id
         changes == proc[p].changes[1]
         modified_threads == SetAccountId(unwrap_or_default(proc[p].batch_result), a)
     IN \/ /\ stored' = set_history_id(a, changes.new_history_id, TRUE)
           /\ cleared' = ClearedAfterSet(a)
           /\ proc' = [proc EXCEPT ![p] =
                         Finish(p, Ok([modified_threads |-> modified_threads,
                                       deleted_thread_ids |-> changes.modified_thread_ids,
                                       new_history_id |-> changes.new_history_id,
                                       is_full_sync |-> FALSE]))]
           /\ UNCHANGED pendingRetry
        \/ /\ \E t \in DbErrTexts :
                proc' = [proc EXCEPT ![p] = [Finish(p, Err(t)) EXCEPT !.persist_failed = TRUE]]
           /\ pendingRetry' = [pendingRetry EXCEPT ![a] = proc[p].stored_history_id]
           /\ stored' = set_history_id(a, changes.new_history_id, FALSE)
           /\ UNCHANGED cleared
  /\ call' = Written(stored')
  /\ UNCHANGED <<db, icloud>>

\* sync_threads_incremental, lines 609-617: the expiry arm deletes the row
ClearHistoryId(p) ==
  /\ proc[p].pc = "clear"
  /\ LET a == proc[p].account_id
     IN \/ /\ stored' = clear_history_id(a, TRUE)
           /\ cleared' = [cleared EXCEPT ![a] = "yes"]
           /\ proc' = [proc EXCEPT ![p] = [@ EXCEPT !.pc = "profile"]]
        \/ /\ \E t \in DbErrTexts : proc' = [proc EXCEPT ![p] = Finish(p, Err(t))]
           /\ stored' = clear_history_id(a, FALSE)
           /\ UNCHANGED cleared
  /\ UNCHANGED pendingRetry
  /\ UNCHANGED <<call, db, icloud>>

\* what the profile endpoint can answer to invocation p
ProfileResponses(p) ==
       [kind : {"network"}, text : NetErrTexts]
  \cup [kind : {"status"}, status : {"404"} \cup OtherStatuses, body : Bodies]
  \cup [kind : {"badjson"}, text : JsonErrTexts]
  \cup [kind : {"ok"}, historyId : ServedIds(p)]

\* the profile is decoded into a default-initialised history id
get_current_history_id_default(resp) ==
  CASE resp.kind = "network" -> Err(ErrRequestFailed(resp.text))
    [] resp.kind = "status" -> Err(ErrApi(resp.status, resp.body))
    [] resp.kind = "badjson" -> Err(ErrParseProfile(resp.text))
    [] resp.kind = "ok" -> [tag |-> "Ok", history_id |-> 1]

\* get_current_history_id, lines 1162-1191
get_current_history_id(resp) ==
  CASE resp.kind = "network" -> Err(ErrRequestFailed(resp.text))
    [] resp.kind = "status" -> Err(ErrApi(resp.status, resp.body))
    [] resp.kind = "badjson" -> Err(ErrParseProfile(resp.text))
    [] resp.kind = "ok" -> [tag |-> "Ok", history_id |-> resp.historyId]

\* perform_full_sync, lines 636-640
ProfileRequest(p) ==
  /\ proc[p].pc = "profile"
  /\ \E resp \in ProfileResponses(p) :
       LET r == get_current_history_id(resp)
           me == [proc[p] EXCEPT !.profileReqs = @ + 1]
       IN proc' = [proc EXCEPT ![p] =
                     IF r.tag = "Ok"
                     THEN [me EXCEPT !.pc = "fullpersist", !.profileHid = Some(r.history_id)]
                     ELSE [me EXCEPT !.pc = "done", !.result = Some(Err(ErrGetHistoryId(r.msg)))]]
  /\ UNCHANGED <<stored, cleared, pendingRetry>>
  /\ UNCHANGED <<call, db, icloud>>

\* perform_full_sync, lines 642-657
FullSyncPersist(p) ==
  /\ proc[p].pc = "fullpersist"
  /\ LET a == proc[p].account_id
         history_id == proc[p].profileHid[1]
     IN \/ /\ stored' = set_history_id(a, history_id, TRUE)
           /\ cleared' = ClearedAfterSet(a)
           /\ proc' = [proc EXCEPT ![p] =
                         Finish(p, Ok([modified_threads |-> <<>>,
                                       deleted_thread_ids |-> <<>>,
                                       new_history_id |-> history_id,
                                       is_full_sync |-> TRUE]))]
        \/ /\ \E t \in DbErrTexts : proc' = [proc EXCEPT ![p] = Finish(p, Err(t))]
           /\ stored' = set_history_id(a, history_id, FALSE)
           /\ UNCHANGED cleared
  /\ UNCHANGED pendingRetry
  /\ call' = Written(stored')
  /\ UNCHANGED <<db, icloud>>

\* ---------------------------------------------------------------- specification
\* commands run one at a time
Next ==
  \E p \in Procs :
    \/ \E a \in Accounts : ReadCursor(p, a, TRUE)
    \/ GetAccessToken(p)
    \/ HistoryRequest(p)
    \/ HistoryItem(p)
    \/ PageEnd(p)
    \/ BatchCall(p)
    \/ BatchChunk(p)
    \/ SetHistoryId(p)
    \/ ClearHistoryId(p)
    \/ ProfileRequest(p)
    \/ FullSyncPersist(p)
    \/ Return(p)

Spec == Init /\ [][Next]_vars

\* ---------------------------------------------------------------- the cursor over time
\* the mailbox of account a changes: its history id at the server advances
ServerAdvance(a) ==
  /\ call.fn = "server"
  /\ call.historyId[a] < MaxHistoryId
  /\ call' = [call EXCEPT !.historyId[a] = @ + 1]
  /\ UNCHANGED <<stored, proc, cleared, pendingRetry, db, icloud>>

\* every stored cursor was served by the account's mailbox, so none is ahead
\* of it; an account outside synced has a new mailbox and no row
InitFollowed(procs, synced) ==
  /\ \E historyId \in [Accounts -> HistoryIds] :
       /\ \A a \in Accounts \ synced : historyId[a] = 1
       /\ stored \in {st \in [Accounts -> Option(HistoryIds)] :
                       \A a \in Accounts :
                         /\ st[a] # None => st[a][1] <= historyId[a]
                         /\ a \notin synced => st[a] = None}
       /\ call = Followed(historyId, stored)
  /\ proc = [p \in procs |-> IdleProc]
  /\ cleared = [a \in Accounts |-> "no"]
  /\ pendingRetry = [a \in Accounts |-> None]
  /\ db = EmptyDb /\ icloud = EmptyICloud

\* one invocation at a time: the next one starts after the last has returned
OneAtATime == {1}

InitCursor == InitFollowed(OneAtATime, Accounts)

\* commands run one at a time while the mailboxes change
NextCursor ==
  \/ \E a \in Accounts : ServerAdvance(a)
  \/ \E p \in OneAtATime :
       \/ \E a \in Accounts : ReadCursor(p, a, TRUE)
       \/ GetAccessToken(p)
       \/ HistoryRequest(p)
       \/ HistoryItem(p)
       \/ PageEnd(p)
       \/ BatchCall(p)
       \/ BatchChunk(p)
       \/ SetHistoryId(p)
       \/ ClearHistoryId(p)
       \/ ProfileRequest(p)
       \/ FullSyncPersist(p)
       \/ Return(p)

SpecCursor == InitCursor /\ [][NextCursor]_vars

\* two invocations of sync_threads_incremental for one account that the caller
\* does not serialise; each history page they are served is empty
Racers == {1, 2}
RaceAccounts == {"A"}

InitRace == InitFollowed(Racers, RaceAccounts)

NextRace ==
  \/ \E a \in RaceAccounts : ServerAdvance(a)
  \/ \E p \in Racers :
       \/ \E a \in RaceAccounts : ReadCursor(p, a, FALSE)
       \/ GetAccessToken(p)
       \/ HistoryRequest(p)
       \/ PageEnd(p)
       \/ SetHistoryId(p)
       \/ ClearHistoryId(p)
       \/ ProfileRequest(p)
       \/ FullSyncPersist(p)

SpecRace == InitRace /\ [][NextRace]_vars

\* batch_get_thread_details called on its own (gmail/mod.rs:198, 249 and
\* commands.rs:584 are its callers) with a list of distinct thread ids
BatchThreadIds == {"T1", "T2", "T3", "T4", "T5"}

BatchInputs ==
  UNION {{s \in [1..n -> BatchThreadIds] : \A i, j \in 1..n : s[i] = s[j] => i = j} :
           n \in 0..Min(MaxBatchIds, Cardinality(BatchThreadIds))}

InitBatch ==
  /\ stored = [a \in Accounts |-> None]
  /\ cleared = [a \in Accounts |-> "no"]
  /\ pendingRetry = [a \in Accounts |-> None]
  /\ db = EmptyDb /\ icloud = EmptyICloud
  /\ call = NoCall
  /\ \E ids \in BatchInputs :
       proc = [p \in Procs |-> IF p = 1
                               THEN [IdleProc EXCEPT !.pc = "batch_call", !.thread_ids = ids]
                               ELSE IdleProc]

NextBatch == \E p \in Procs : BatchCall(p) \/ BatchChunk(p)

SpecBatch == InitBatch /\ [][NextBatch]_vars

TypeOK ==
  /\ stored \in [Accounts -> Option(HistoryIds)]
  /\ \A p \in Procs : proc[p].pc \in {"idle", "token", "history", "items", "batch_call", "batch", "persist",
                                       "clear", "profile", "fullpersist", "done"}


\* ---------------------------------------------------------------- text
\* A text that the code takes apart is a sequence of tokens: a token is a
\* keyword, a separator or one character, and EOL ends a line.
EOL == "<eol>"
SP == " "

\* str::find: the position of the first occurrence of needle
RECURSIVE find_from(_, _, _)
find_from(hay, needle, i) ==
  IF i + Len(needle) - 1 > Len(hay) THEN None
  ELSE IF SubSeq(hay, i, i + Len(needle) - 1) = needle THEN Some(i)
  ELSE find_from(hay, needle, i + 1)

find(hay, needle) == find_from(hay, needle, 1)

\* str::contains
str_contains(hay, needle) == find(hay, needle) # None

\* str::trim
RECURSIVE trim_start(_)
trim_start(s) == IF s # <<>> /\ Head(s) = SP THEN trim_start(Tail(s)) ELSE s

RECURSIVE trim_end(_)
trim_end(s) ==
  IF s # <<>> /\ s[Len(s)] = SP THEN trim_end(SubSeq(s, 1, Len(s) - 1)) ELSE s

trim(s) == trim_end(trim_start(s))

\* str::lines
RECURSIVE lines(_)
lines(s) ==
  IF s = <<>> THEN <<>>
  ELSE LET nl == find(s, <<EOL>>)
       IN IF nl = None THEN <<s>>
          ELSE <<SubSeq(s, 1, nl[1] - 1)>> \o lines(SubSeq(s, nl[1] + 1, Len(s)))

\* str::starts_with for a property name, which is one token
starts_with(line, name) == line # <<>> /\ line[1] = name

\* str::strip_prefix(..).unwrap_or(..)
strip_prefix_or_self(s, prefix) ==
  IF Len(s) >= Len(prefix) /\ SubSeq(s, 1, Len(prefix)) = prefix
  THEN SubSeq(s, Len(prefix) + 1, Len(s)) ELSE s

\* a slice whose start lies behind its end makes the thread panic
Panic == <<"panic", "slice index starts after its end">>

\* extract_email_address, lines 1345-1354
extract_email_address(from) ==
  LET start == find(from, <<"<">>)
      end == find(from, <<">">>)
  IN IF start # None /\ end # None
     THEN IF start[1] + 1 > end[1] THEN Panic
          ELSE trim(SubSeq(from, start[1] + 1, end[1] - 1))
     ELSE trim(from)

\* ---------------------------------------------------------------- ICS
Digits == <<"0", "1", "2", "3", "4", "5", "6", "7", "8", "9">>

IsDigit(c) == \E d \in DOMAIN Digits : Digits[d] = c
DigitValue(c) == (CHOOSE d \in DOMAIN Digits : Digits[d] = c) - 1

RECURSIVE DecimalValue(_)
DecimalValue(s) ==
  IF s = <<>> THEN 0 ELSE 10 * DecimalValue(SubSeq(s, 1, Len(s) - 1)) + DigitValue(s[Len(s)])

\* str::parse::<i32>() and ::<u32>() of a short field: digits with an optional
\* sign, "-" for the signed type only
parse_int(s, signed) ==
  LET body == IF s # <<>> /\ (Head(s) = "+" \/ (signed /\ Head(s) = "-")) THEN Tail(s) ELSE s
  IN IF body = <<>> \/ \E i \in DOMAIN body : ~IsDigit(body[i]) THEN None
     ELSE IF s[1] = "-" THEN Some(0 - DecimalValue(body)) ELSE Some(DecimalValue(body))

IsLeap(y) == (y % 4 = 0 /\ y % 100 # 0) \/ y % 400 = 0

DaysInMonth(y, m) ==
  IF m = 2 THEN (IF IsLeap(y) THEN 29 ELSE 28)
  ELSE IF m \in {4, 6, 9, 11} THEN 30 ELSE 31

\* a calendar without leap days
from_ymd_opt_noleap(y, m, d) ==
  IF m \in 1..12 /\ d >= 1 /\ d <= DaysInMonth(1970, m) THEN Some(<<y, m, d>>) ELSE None

\* NaiveDate::from_ymd_opt
from_ymd_opt(y, m, d) ==
  IF m \in 1..12 /\ d >= 1 /\ d <= DaysInMonth(y, m) THEN Some(<<y, m, d>>) ELSE None

\* NaiveTime::from_hms_opt
from_hms_opt(h, mi, s) ==
  IF h \in 0..23 /\ mi \in 0..59 /\ s \in 0..59 THEN Some(<<h, mi, s>>) ELSE None

\* the days from 1970-01-01 to the date, for years from 1970 on
RECURSIVE DaysBeforeYear(_)
DaysBeforeYear(y) ==
  IF y <= 1970 THEN 0 ELSE DaysBeforeYear(y - 1) + (IF IsLeap(y - 1) THEN 366 ELSE 365)

RECURSIVE DaysBeforeMonth(_, _)
DaysBeforeMonth(y, m) == IF m <= 1 THEN 0 ELSE DaysBeforeMonth(y, m - 1) + DaysInMonth(y, m - 1)

DaysFromEpoch(y, m, d) == DaysBeforeYear(y) + DaysBeforeMonth(y, m) + (d - 1)

\* Timestamps are kept in whole seconds: every timestamp the parser produces
\* is a whole number of seconds and timestamp_millis() is 1000 times it.
Timestamp(date, time) ==
  DaysFromEpoch(date[1], date[2], date[3]) * 86400 + time[1] * 3600 + time[2] * 60 + time[3]

\* str::trim_end_matches('Z')
RECURSIVE trim_end_matches_Z(_)
trim_end_matches_Z(s) ==
  IF s # <<>> /\ s[Len(s)] = "Z" THEN trim_end_matches_Z(SubSeq(s, 1, Len(s) - 1)) ELSE s

\* the and_then chain of `?` over the numeric fields
AllSome(fields) == \A i \in DOMAIN fields : fields[i] # None

\* parse_ics_datetime, lines 1448-1495; offset is the host's distance from UTC
\* in seconds; the result is Some(<<timestamp, all_day>>)
parse_ics_datetime(value, offset) ==
  LET s == trim(value)
      has_T == \E i \in DOMAIN s : s[i] = "T"
  IN IF Len(s) = 8 /\ ~has_T
     THEN LET year == parse_int(SubSeq(s, 1, 4), TRUE)
              month == parse_int(SubSeq(s, 5, 6), FALSE)
              day == parse_int(SubSeq(s, 7, 8), FALSE)
          IN IF ~AllSome(<<year, month, day>>) THEN None
             ELSE LET date == from_ymd_opt(year[1], month[1], day[1])
                  IN IF date = None THEN None
                     ELSE Some(<<Timestamp(date[1], <<0, 0, 0>>), TRUE>>)
     ELSE IF has_T
     THEN LET is_utc == s[Len(s)] = "Z"
              t == trim_end_matches_Z(s)
          IN IF Len(t) >= 15
             THEN LET year == parse_int(SubSeq(t, 1, 4), TRUE)
                      month == parse_int(SubSeq(t, 5, 6), FALSE)
                      day == parse_int(SubSeq(t, 7, 8), FALSE)
                      hour == parse_int(SubSeq(t, 10, 11), FALSE)
                      min == parse_int(SubSeq(t, 12, 13), FALSE)
                      sec == parse_int(SubSeq(t, 14, 15), FALSE)
                  IN IF ~AllSome(<<year, month, day, hour, min, sec>>) THEN None
                     ELSE LET date == from_ymd_opt(year[1], month[1], day[1])
                              time == from_hms_opt(hour[1], min[1], sec[1])
                          IN IF date = None \/ time = None THEN None
                             ELSE Some(<<Timestamp(date[1], time[1])
                                           - (IF is_utc THEN 0 ELSE offset), FALSE>>)
             ELSE None
     ELSE None

\* the closures get_property and get_event_property, lines 1365-1376 and
\* 1387-1397: the value of the first line that starts with name and has a colon
RECURSIVE first_property(_, _)
first_property(ls, name) ==
  IF ls = <<>> THEN None
  ELSE LET line == trim(Head(ls))
           colon_pos == find(line, <<":">>)
       IN IF starts_with(line, name) /\ colon_pos # None
          THEN Some(SubSeq(line, colon_pos[1] + 1, Len(line)))
          ELSE first_property(Tail(ls), name)

get_property(text, name) == first_property(lines(text), name)

\* lines 1420-1428: the ATTENDEE lines of the event block
RECURSIVE attendees_of(_)
attendees_of(ls) ==
  IF ls = <<>> THEN <<>>
  ELSE LET line == Head(ls)
           pos == find(line, <<":">>)
       IN (IF starts_with(trim(line), "ATTENDEE") /\ pos # None
           THEN <<strip_prefix_or_self(SubSeq(line, pos[1] + 1, Len(line)), <<"mailto", ":">>)>>
           ELSE <<>>) \o attendees_of(Tail(ls))

BEGIN_VCALENDAR == <<"BEGIN", ":", "VCALENDAR">>
BEGIN_VEVENT == <<"BEGIN", ":", "VEVENT">>
END_VEVENT == <<"END", ":", "VEVENT">>

\* parse_ics_content, lines 1358-1444: None, Some(event), or a panic
parse_ics_content(ics_data, offset) ==
  IF ~str_contains(ics_data, BEGIN_VCALENDAR) \/ ~str_contains(ics_data, BEGIN_VEVENT)
  THEN None
  ELSE LET method == get_property(ics_data, "METHOD")
           event_start == find(ics_data, BEGIN_VEVENT)
           event_end == find(ics_data, END_VEVENT)
       IN IF event_end = None THEN None
          ELSE IF event_start[1] > event_end[1] THEN Panic
          ELSE LET event_block == SubSeq(ics_data, event_start[1], event_end[1] - 1)
                   summary == get_property(event_block, "SUMMARY")
                   dtstart == get_property(event_block, "DTSTART")
                   start == IF dtstart = None THEN None
                            ELSE parse_ics_datetime(dtstart[1], offset)
                   dtend == get_property(event_block, "DTEND")
                   end == IF dtend = None THEN None ELSE parse_ics_datetime(dtend[1], offset)
                   organizer == get_property(event_block, "ORGANIZER")
               IN IF start = None THEN None
                  ELSE Some([uid |-> get_property(event_block, "UID"),
                             title |-> IF summary = None THEN <<"(No title)">> ELSE summary[1],
                             start_time |-> start[1][1],
                             end_time |-> IF end = None THEN None ELSE Some(end[1][1]),
                             all_day |-> start[1][2],
                             location |-> get_property(event_block, "LOCATION"),
                             description |-> get_property(event_block, "DESCRIPTION"),
                             organizer |-> IF organizer = None THEN None
                                           ELSE Some(strip_prefix_or_self(organizer[1],
                                                                          <<"mailto", ":">>)),
                             attendees |-> attendees_of(lines(event_block)),
                             method |-> method,
                             status |-> get_property(event_block, "STATUS"),
                             response_status |-> None])

\* ---------------------------------------------------------------- the thread reducer
MaxMessages == 3
MaxAttachments == 5
MaxCalendar == 3

\* gmail/mod.rs:12
MAX_INLINE_IMAGE_SIZE == 100000

\* gmail/mod.rs:739, the argument of take
InlineImageLimit == 3

Hdr(n, v) == [name |-> n, value |-> v]

\* the ASCII lower case of the header names that occur
to_ascii_lowercase(name) ==
  CASE name \in {"From", "FROM"} -> "from"
    [] name \in {"Subject", "SUBJECT"} -> "subject"
    [] name \in {"Content-ID", "Content-Id"} -> "content-id"
    [] OTHER -> name

eq_ignore_ascii_case(a, b) == to_ascii_lowercase(a) = to_ascii_lowercase(b)

\* headers.iter().find(|h| h.name.eq_ignore_ascii_case(name)).map(|h| h.value)
RECURSIVE find_header(_, _)
find_header(headers, name) ==
  IF headers = <<>> THEN None
  ELSE IF eq_ignore_ascii_case(Head(headers).name, name) THEN Some(Head(headers).value)
  ELSE find_header(Tail(headers), name)

\* m.payload.as_ref().and_then(|p| p.headers.as_ref()).and_then(find name)
header_of(m, name) ==
  IF m.payload = None \/ m.payload[1].headers = None THEN None
  ELSE find_header(m.payload[1].headers[1], name)

\* the first message stands for the thread
last_first(messages) == IF messages = <<>> THEN None ELSE Some(messages[1])

\* slice::last, line 662
last(messages) == IF messages = <<>> THEN None ELSE Some(messages[Len(messages)])

UtcNow == [kind |-> "now"]
DateTimeAt(ms) == [kind |-> "at", ms |-> ms]

\* lines 664-673
subject_of(latest_msg) ==
  IF latest_msg = None \/ header_of(latest_msg[1], "Subject") = None
  THEN <<"(No Subject)">> ELSE header_of(latest_msg[1], "Subject")[1]

\* lines 675-677
snippet_of(latest_msg) ==
  IF latest_msg = None \/ latest_msg[1].snippet = None THEN "" ELSE latest_msg[1].snippet[1]

\* lines 679-683
last_date_of(latest_msg) ==
  IF latest_msg = None \/ latest_msg[1].internal_date = None THEN UtcNow
  ELSE LET ms == parse_int(latest_msg[1].internal_date[1], TRUE)
       IN IF ms = None THEN UtcNow ELSE DateTimeAt(ms[1])

\* lines 710-712
labels_of(latest_msg) ==
  IF latest_msg = None \/ latest_msg[1].label_ids = None THEN <<>> ELSE latest_msg[1].label_ids[1]

\* lines 685-693
is_unread(m) == m.label_ids # None /\ "UNREAD" \in Range(m.label_ids[1])

unread_count_of(messages) == Cardinality({i \in DOMAIN messages : is_unread(messages[i])})

\* lines 695-707: the address of the From header of every message that has one
RECURSIVE from_addresses(_)
from_addresses(messages) ==
  IF messages = <<>> THEN <<>>
  ELSE (IF header_of(Head(messages), "From") = None THEN <<>>
        ELSE <<extract_email_address(header_of(Head(messages), "From")[1])>>)
       \o from_addresses(Tail(messages))

\* Vec::dedup, line 708: removes consecutive repeated elements
RECURSIVE dedup(_)
dedup(v) ==
  IF Len(v) <= 1 THEN v
  ELSE IF v[1] = v[2] THEN dedup(Tail(v)) ELSE <<v[1]>> \o dedup(Tail(v))

\* str::trim_matches(|c| c == '<' || c == '>'), line 1514
RECURSIVE trim_angle(_)
trim_angle(s) ==
  IF s # <<>> /\ Head(s) \in {"<", ">"} THEN trim_angle(Tail(s))
  ELSE IF s # <<>> /\ s[Len(s)] \in {"<", ">"} THEN trim_angle(SubSeq(s, 1, Len(s) - 1))
  ELSE s

\* mime_type.split('/').last(): the text behind the last slash
RECURSIVE after_last_slash(_)
after_last_slash(s) ==
  LET i == find(s, <<"/">>)
  IN IF i = None THEN s ELSE after_last_slash(SubSeq(s, i[1] + 1, Len(s)))

\* extract_attachments_from_parts, lines 1511-1541: the descriptor of the part
\* itself, if it has an attachment id and a size above zero
own_attachment(part) ==
  LET content_id == IF part.headers = None THEN None
                    ELSE LET h == find_header(part.headers[1], "Content-ID")
                         IN IF h = None THEN None ELSE Some(trim_angle(h[1]))
  IN IF part.body = None \/ part.body[1].attachment_id = None THEN <<>>
     ELSE LET size == IF part.body[1].size = None THEN 0 ELSE part.body[1].size[1]
          IN IF size > 0
             THEN <<[attachment_id |-> part.body[1].attachment_id[1],
                     filename |-> IF part.filename # None /\ part.filename[1] # <<>>
                                  THEN part.filename[1]
                                  ELSE IF content_id # None
                                  THEN content_id[1] \o <<".">> \o after_last_slash(part.mime_type)
                                  ELSE <<"attachment", ".">> \o after_last_slash(part.mime_type),
                     mime_type |-> part.mime_type,
                     size |-> size,
                     content_id |-> content_id]>>
             ELSE <<>>

\* extract_attachments_from_parts, lines 1506-1547
RECURSIVE extract_attachments_from_parts(_), extract_from_list(_)

\* the recursive call sits inside the size check
extract_from_list_inside(ps) ==
  IF ps = <<>> THEN <<>>
  ELSE own_attachment(Head(ps))
         \o (IF own_attachment(Head(ps)) = <<>> THEN <<>>
             ELSE extract_attachments_from_parts(Head(ps).parts))
         \o extract_from_list(Tail(ps))

extract_from_list(ps) ==
  IF ps = <<>> THEN <<>>
  ELSE own_attachment(Head(ps)) \o extract_attachments_from_parts(Head(ps).parts)
         \o extract_from_list(Tail(ps))

extract_attachments_from_parts(parts) ==
  IF parts = None THEN <<>> ELSE extract_from_list(parts[1])

\* lines 719-729: the Attachment built from a descriptor of message msg
to_attachment(msg, info) ==
  [message_id |-> msg.id,
   attachment_id |-> info.attachment_id,
   filename |-> info.filename,
   mime_type |-> info.mime_type,
   size |-> info.size,
   inline_data |-> None,
   content_id |-> info.content_id]

\* only the latest message is searched
attachments_of_latest(messages) ==
  IF messages = <<>> \/ messages[Len(messages)].payload = None THEN <<>>
  ELSE LET msg == messages[Len(messages)]
           infos == extract_attachments_from_parts(msg.payload[1].parts)
       IN [k \in 1..Len(infos) |-> to_attachment(msg, infos[k])]

\* lines 715-731
RECURSIVE attachments_of(_)
attachments_of(messages) ==
  IF messages = <<>> THEN <<>>
  ELSE (IF Head(messages).payload = None THEN <<>>
        ELSE LET infos == extract_attachments_from_parts(Head(messages).payload[1].parts)
             IN [k \in 1..Len(infos) |-> to_attachment(Head(messages), infos[k])])
       \o attachments_of(Tail(messages))

\* models.rs:101-103 and gmail/mod.rs:738
is_image(a) == Len(a.mime_type) >= 2 /\ SubSeq(a.mime_type, 1, 2) = <<"image", "/">>

\* models.rs:105-109
is_calendar(a) ==
  \/ a.mime_type = <<"text", "/", "calendar">>
  \/ a.mime_type = <<"application", "/", "ics">>
  \/ (Len(a.filename) >= 2 /\ SubSeq(a.filename, Len(a.filename) - 1, Len(a.filename)) = <<".", "ics">>)

\* line 738, the filter
qualifies(a) == is_image(a) /\ a.size < MAX_INLINE_IMAGE_SIZE

\* the indices from i on, in order, of the attachments that pass the filter
RECURSIVE qualifying_from(_, _)
qualifying_from(attachments, i) ==
  IF i > Len(attachments) THEN <<>>
  ELSE (IF qualifies(attachments[i]) THEN <<i>> ELSE <<>>) \o qualifying_from(attachments, i + 1)

\* Iterator::take
take(s, n) == SubSeq(s, 1, Min(n, Len(s)))

\* every qualifying image is fetched
image_indices_nolimit(attachments) == qualifying_from(attachments, 1)

\* lines 735-741
image_indices_of(attachments) == take(qualifying_from(attachments, 1), InlineImageLimit)

\* the index kept with each request is ignored: result j goes to attachment j
apply_results_by_position(attachments, image_indices, results) ==
  [k \in 1..Len(attachments) |->
     IF k \in DOMAIN results /\ results[k].tag = "Ok"
     THEN [attachments[k] EXCEPT !.inline_data = Some(results[k].data)]
     ELSE attachments[k]]

\* lines 750-759: the results of the fetches applied to the attachments
apply_results(attachments, image_indices, results) ==
  [k \in 1..Len(attachments) |->
     IF \E j \in DOMAIN image_indices : image_indices[j] = k /\ results[j].tag = "Ok"
     THEN [attachments[k] EXCEPT !.inline_data =
             Some(results[CHOOSE j \in DOMAIN image_indices : image_indices[j] = k].data)]
     ELSE attachments[k]]

\* String::replace('-', "+").replace('_', "/"), line 768
normalize(data) ==
  [k \in 1..Len(data) |-> IF data[k] = "-" THEN "+" ELSE IF data[k] = "_" THEN "/" ELSE data[k]]

\* ---------------------------------------------------------------- reducer inputs
\* the lines of a text, each ended by EOL
RECURSIVE Text(_)
Text(ls) == IF ls = <<>> THEN <<>> ELSE Head(ls) \o <<EOL>> \o Text(Tail(ls))

END_VCALENDAR == <<"END", ":", "VCALENDAR">>

Date20240115 == <<"2", "0", "2", "4", "0", "1", "1", "5">>
Time100000 == <<"1", "0", "0", "0", "0", "0">>

IcsStandup ==
  Text(<<BEGIN_VCALENDAR, <<"METHOD", ":", "REQUEST">>, BEGIN_VEVENT,
         <<"UID", ":", "u1">>, <<"SUMMARY", ":", "Standup">>,
         <<"DTSTART", ":">> \o Date20240115 \o <<"T">> \o Time100000 \o <<"Z">>,
         <<"ORGANIZER", ":", "mailto", ":", "o@x.com">>,
         END_VEVENT, END_VCALENDAR>>)

IcsHoliday ==
  Text(<<BEGIN_VCALENDAR, BEGIN_VEVENT, <<"SUMMARY", ":", "Holiday">>,
         <<"DTSTART", ";", "VALUE=DATE", ":">> \o Date20240115,
         END_VEVENT, END_VCALENDAR>>)

IcsNoStart ==
  Text(<<BEGIN_VCALENDAR, BEGIN_VEVENT, <<"SUMMARY", ":", "Undated">>,
         END_VEVENT, END_VCALENDAR>>)

\* a text in which END:VEVENT occurs, inside a value, before BEGIN:VEVENT
IcsEndFirst ==
  Text(<<BEGIN_VCALENDAR, <<"X-NOTE", ":", "END", ":", "VEVENT">>, BEGIN_VEVENT,
         <<"SUMMARY", ":", "Undated">>, END_VEVENT, END_VCALENDAR>>)

\* base64::engine::general_purpose::STANDARD.decode, line 769, on the attachment
\* data that occur: a block of data is one token, "-" and "_" are the two
\* characters of the URL-safe alphabet that the standard alphabet lacks
base64_decode(text) ==
  CASE text = <<"c3RhbmR1cA">> -> [tag |-> "Ok", bytes |-> [utf8 |-> TRUE, text |-> IcsStandup]]
    [] text = <<"aG9s", "+", "aWRh", "/", "eQ">> ->
         [tag |-> "Ok", bytes |-> [utf8 |-> TRUE, text |-> IcsHoliday]]
    [] text = <<"dW5kYXRlZA">> -> [tag |-> "Ok", bytes |-> [utf8 |-> TRUE, text |-> IcsNoStart]]
    [] text = <<"ZW5k", "/", "Zmlyc3Q">> ->
         [tag |-> "Ok", bytes |-> [utf8 |-> TRUE, text |-> IcsEndFirst]]
    [] text = <<"gICA">> -> [tag |-> "Ok", bytes |-> [utf8 |-> FALSE]]
    [] OTHER -> [tag |-> "Err"]

\* String::from_utf8, line 770
from_utf8(bytes) == IF bytes.utf8 THEN [tag |-> "Ok", text |-> bytes.text] ELSE [tag |-> "Err"]

\* what a part of a message and the attachment endpoint behind it can be
Leaf(mime, filename, size, fetch) ==
  [mime_type |-> mime, filename |-> filename, size |-> size, fetch |-> fetch]

FetchOk(data) == [tag |-> "Ok", data |-> data]
FetchErr == [tag |-> "Err", msg |-> <<"Request", "failed">>]

ImagePng == <<"image", "/", "png">>
ImageJpeg == <<"image", "/", "jpeg">>
ImageGif == <<"image", "/", "gif">>
Pdf == <<"application", "/", "pdf">>
TextCalendar == <<"text", "/", "calendar">>
ApplicationIcs == <<"application", "/", "ics">>

ImageLeaves ==
  { Leaf(ImagePng, Some(<<"p", ".", "png">>), Some(MAX_INLINE_IMAGE_SIZE - 1), FetchOk(<<"iVBOR">>)),
    Leaf(ImageJpeg, None, Some(500), FetchErr),
    Leaf(ImagePng, Some(<<"big", ".", "png">>), Some(MAX_INLINE_IMAGE_SIZE), FetchOk(<<"iVBOR">>)),
    Leaf(Pdf, Some(<<"doc", ".", "pdf">>), Some(500), FetchOk(<<"JVBER">>)),
    Leaf(ImagePng, Some(<<"empty", ".", "png">>), None, FetchErr) }

\* small images whose fetches succeed with different data or fail
InlineLeaves ==
  { Leaf(ImagePng, Some(<<"p", ".", "png">>), Some(MAX_INLINE_IMAGE_SIZE - 1), FetchOk(<<"iVBOR">>)),
    Leaf(ImageGif, Some(<<"g", ".", "gif">>), Some(1), FetchOk(<<"R0lGOD">>)),
    Leaf(ImageJpeg, None, Some(500), FetchErr) }

CalendarLeaves ==
  { Leaf(ImageJpeg, Some(<<>>), Some(500), FetchOk(<<"9j4AAQ">>)),
    Leaf(TextCalendar, None, Some(700), FetchErr),
    Leaf(ApplicationIcs, Some(<<"a", ".", "ics">>), Some(700), FetchOk(<<"!">>)),
    Leaf(Pdf, Some(<<"b", ".", "ics">>), Some(700), FetchOk(<<"gICA">>)),
    Leaf(TextCalendar, Some(<<"c", ".", "ics">>), Some(700), FetchOk(<<"dW5kYXRlZA">>)),
    Leaf(TextCalendar, Some(<<"invite", ".", "ics">>), Some(700), FetchOk(<<"c3RhbmR1cA">>)),
    Leaf(ApplicationIcs, None, Some(700), FetchOk(<<"aG9s", "-", "aWRh", "_", "eQ">>)),
    Leaf(TextCalendar, Some(<<"d", ".", "ics">>), Some(700), FetchOk(<<"ZW5k", "_", "Zmlyc3Q">>)) }

\* the MessagePart of leaf number i: its attachment id is i
PartOf(leaf, i) ==
  [filename |-> leaf.filename,
   mime_type |-> leaf.mime_type,
   headers |-> IF leaf.mime_type = ImageJpeg
               THEN Some(<<Hdr("Content-Id", <<"<", "cid", ">">>)>>) ELSE None,
   body |-> Some([attachment_id |-> Some(i), size |-> leaf.size]),
   parts |-> None]

Multipart(children) ==
  [filename |-> None, mime_type |-> <<"multipart", "/", "mixed">>, headers |-> None,
   body |-> Some([attachment_id |-> None, size |-> Some(0)]),
   parts |-> Some(children)]

\* the header variants of a message
FromHeaders ==
  { <<>>,
    <<Hdr("From", <<"a@x.com">>)>>,
    <<Hdr("FROM", <<"Ann", SP, "<", "a@x.com", ">">>)>>,
    <<Hdr("From", <<SP, "b@x.com">>)>> }

\* the content variants of a message
Contents ==
  { [label_ids |-> None, snippet |-> None, internal_date |-> None, subject |-> <<>>],
    [label_ids |-> Some(<<"INBOX">>), snippet |-> Some("s1"),
     internal_date |-> Some(<<"1", "0">>), subject |-> <<Hdr("Subject", <<"S1">>)>>],
    [label_ids |-> Some(<<"UNREAD", "INBOX">>), snippet |-> Some("s2"),
     internal_date |-> Some(<<"2", "0">>), subject |-> <<Hdr("SUBJECT", <<"S2">>)>>],
    [label_ids |-> Some(<<"INBOX", "UNREAD">>), snippet |-> Some("s1"),
     internal_date |-> Some(<<"x">>), subject |-> <<Hdr("Subject", <<"S2">>), Hdr("Subject", <<"S1">>)>>] }

MessageId(i) == <<"m", i>>

\* the MessageDetail number i with the given headers, content and parts
Message(i, from, c, parts) ==
  [id |-> MessageId(i),
   label_ids |-> c.label_ids,
   snippet |-> c.snippet,
   internal_date |-> c.internal_date,
   payload |-> IF from = <<>> /\ c.subject = <<>> /\ parts = None THEN None
               ELSE Some([headers |-> IF from = <<>> /\ c.subject = <<>> THEN None
                                      ELSE Some(<<Hdr("To", <<"me@x.com">>)>> \o c.subject \o from),
                          parts |-> parts])]

\* a thread of n messages that differ in headers and content and carry no parts
HeaderInput(n, f, c) ==
  [id |-> "T1",
   messages |-> IF n = 0 THEN None ELSE Some([i \in 1..n |-> Message(i, f[i], c[i], None)]),
   fetch |-> <<>>]

\* a thread of two messages that carry the leaves: the first half under a
\* multipart part of the first message, the rest as the parts of the second
LeafInput(leaves) ==
  LET n == Len(leaves)
      h == n \div 2
      c == CHOOSE x \in Contents : x.label_ids = Some(<<"INBOX">>)
  IN [id |-> "T1",
      messages |-> Some(<<Message(1, <<>>, c,
                                  Some(<<Multipart([i \in 1..h |-> PartOf(leaves[i], i)])>>)),
                          Message(2, <<>>, c,
                                  Some([i \in 1..(n - h) |-> PartOf(leaves[h + i], h + i)]))>>),
      fetch |-> [i \in 1..n |-> [message_id |-> MessageId(IF i <= h THEN 1 ELSE 2),
                                  result |-> leaves[i].fetch]]]

\* ---------------------------------------------------------------- reducer steps
\* get_attachment(message_id, attachment_id), lines 745 and 765: the endpoint's
\* answer for that attachment of that message
get_attachment(detail, message_id, attachment_id) ==
  IF attachment_id \in DOMAIN detail.fetch /\ detail.fetch[attachment_id].message_id = message_id
  THEN detail.fetch[attachment_id].result
  ELSE FetchErr

StartReduce(detail) ==
  [fn |-> "thread_detail_to_thread",
   pc |-> "start",
   detail |-> detail,
   messages |-> <<>>,
   subject |-> "", snippet |-> "", last_date |-> UtcNow, unread_count |-> 0,
   participants |-> <<>>, labels |-> <<>>,
   attachments |-> <<>>,
   image_indices |-> <<>>,
   imageFetches |-> <<>>,
   i |-> 1,
   calendarFetches |-> <<>>,
   calendar_event |-> None,
   result |-> None]

InitReduce ==
  /\ stored = [a \in Accounts |-> None]
  /\ proc = [p \in Procs |-> IdleProc]
  /\ cleared = [a \in Accounts |-> "no"]
  /\ pendingRetry = [a \in Accounts |-> None]
  /\ db = EmptyDb /\ icloud = EmptyICloud
  /\ \/ \E n \in 0..MaxMessages :
          \E f \in [1..n -> FromHeaders], c \in [1..n -> Contents] :
            call = StartReduce(HeaderInput(n, f, c))
     \/ \E n \in 1..MaxAttachments :
          \E leaves \in [1..n -> ImageLeaves] : call = StartReduce(LeafInput(leaves))
     \/ \E n \in 1..MaxAttachments :
          \E leaves \in [1..n -> InlineLeaves] : call = StartReduce(LeafInput(leaves))
     \/ \E n \in 1..MaxCalendar :
          \E leaves \in [1..n -> CalendarLeaves] : call = StartReduce(LeafInput(leaves))

\* thread_detail_to_thread, lines 661-731: everything before the first request
ReduceMessages ==
  /\ call.fn = "thread_detail_to_thread" /\ call.pc = "start"
  /\ LET messages == IF call.detail.messages = None THEN <<>> ELSE call.detail.messages[1]
         latest_msg == last(messages)
         froms == from_addresses(messages)
     IN call' = IF \E k \in DOMAIN froms : froms[k] = Panic
                THEN [call EXCEPT !.pc = "panicked"]
                ELSE [call EXCEPT !.pc = "images",
                                  !.messages = messages,
                                  !.subject = subject_of(latest_msg),
                                  !.snippet = snippet_of(latest_msg),
                                  !.last_date = last_date_of(latest_msg),
                                  !.unread_count = unread_count_of(messages),
                                  !.participants = dedup(froms),
                                  !.labels = labels_of(latest_msg),
                                  !.attachments = attachments_of(messages)]
  /\ UNCHANGED <<stored, proc, cleared, pendingRetry, db, icloud>>

\* thread_detail_to_thread, lines 735-759: the inline images, fetched together
FetchImages ==
  /\ call.fn = "thread_detail_to_thread" /\ call.pc = "images"
  /\ LET image_indices == image_indices_of(call.attachments)
         requests == [k \in 1..Len(image_indices) |->
                        <<call.attachments[image_indices[k]].message_id,
                          call.attachments[image_indices[k]].attachment_id>>]
         results == [k \in 1..Len(image_indices) |->
                       get_attachment(call.detail, requests[k][1], requests[k][2])]
     IN call' = [call EXCEPT !.pc = "calendar",
                             !.image_indices = image_indices,
                             !.imageFetches = requests,
                             !.attachments = apply_results(call.attachments, image_indices, results),
                             !.i = 1]
  /\ UNCHANGED <<stored, proc, cleared, pendingRetry, db, icloud>>

\* the loop goes on after a successful parse
after_event_continue(i) == [pc |-> "calendar", i |-> i + 1]

\* line 773, the break
after_event(i) == [pc |-> "return", i |-> i]

\* thread_detail_to_thread, lines 763-783: one iteration of the calendar loop
CalendarAttachment ==
  /\ call.fn = "thread_detail_to_thread" /\ call.pc = "calendar"
  /\ call.i <= Len(call.attachments)
  /\ LET attachment == call.attachments[call.i]
         data == get_attachment(call.detail, attachment.message_id, attachment.attachment_id)
         decoded == IF data.tag = "Ok" THEN base64_decode(normalize(data.data)) ELSE [tag |-> "Err"]
         ics_content == IF decoded.tag = "Ok" THEN from_utf8(decoded.bytes) ELSE [tag |-> "Err"]
         event == IF ics_content.tag = "Ok" THEN parse_ics_content(ics_content.text, 0) ELSE None
     IN call' =
          IF ~is_calendar(attachment) THEN [call EXCEPT !.i = @ + 1]
          ELSE LET fetched == [call EXCEPT !.calendarFetches = Append(@, call.i)]
               IN IF event = Panic THEN [fetched EXCEPT !.pc = "panicked"]
                  ELSE IF event # None
                  THEN [fetched EXCEPT !.calendar_event = event,
                                       !.pc = after_event(call.i).pc,
                                       !.i = after_event(call.i).i]
                  ELSE [fetched EXCEPT !.i = @ + 1]
  /\ UNCHANGED <<stored, proc, cleared, pendingRetry, db, icloud>>

\* thread_detail_to_thread, lines 785-799
ReturnThread ==
  /\ call.fn = "thread_detail_to_thread"
  /\ call.pc = "return" \/ (call.pc = "calendar" /\ call.i > Len(call.attachments))
  /\ call' = [call EXCEPT !.pc = "done",
                          !.result = Some([tag |-> "Ok",
                                           thread |-> [gmail_thread_id |-> call.detail.id,
                                                       account_id |-> "",
                                                       subject |-> call.subject,
                                                       snippet |-> call.snippet,
                                                       last_message_date |-> call.last_date,
                                                       unread_count |-> call.unread_count,
                                                       labels |-> call.labels,
                                                       participants |-> call.participants,
                                                       has_attachment |-> call.attachments # <<>>,
                                                       attachments |-> call.attachments,
                                                       calendar_event |-> call.calendar_event]])]
  /\ UNCHANGED <<stored, proc, cleared, pendingRetry, db, icloud>>

NextReduce == ReduceMessages \/ FetchImages \/ CalendarAttachment \/ ReturnThread

SpecReduce == InitReduce /\ [][NextReduce]_vars

\* ---------------------------------------------------------------- date bucketing
MaxThreads == 3

\* Instants are whole hours since 1970-01-01T00:00Z, and a local date is a
\* number of days since 1970-01-01; offset is the host's distance from UTC in
\* hours.
date_naive(instant, offset) == (instant + offset) \div 24

\* Weekday::num_days_from_monday; 1970-01-01 was a Thursday
num_days_from_monday(day) == (day + 3) % 7

\* classify_date, lines 1549-1579; now is what Local::now() returns
classify_date(date, now, offset) ==
  LET today == date_naive(now, offset)
      msg_date == date_naive(date, offset)
      yesterday == today - 1
      days_since_monday == num_days_from_monday(today)
      week_start == today - days_since_monday
      thirty_days_ago == today - 30
  IN IF msg_date = today THEN "Today"
     ELSE IF msg_date = yesterday THEN "Yesterday"
     ELSE IF msg_date >= week_start THEN "ThisWeek"
     ELSE IF msg_date >= thirty_days_ago THEN "Last30Days"
     ELSE "Older"

\* DateBucket::as_str, models.rs:211-219
as_str(bucket) ==
  CASE bucket = "Today" -> "Today"
    [] bucket = "Yesterday" -> "Yesterday"
    [] bucket = "ThisWeek" -> "This week"
    [] bucket = "Last30Days" -> "Last 30 days"
    [] bucket = "Older" -> "Older"

\* line 1591
order == <<"Today", "Yesterday", "This week", "Last 30 days", "Older">>

\* the thread replaces the ones of its bucket
push_replace(groups, label, thread) == [groups EXCEPT ![label] = <<thread>>]

\* line 1587: groups.entry(label).or_default().push(thread); an absent key is
\* the empty sequence
push(groups, label, thread) == [groups EXCEPT ![label] = Append(@, thread)]

\* oldest first
RECURSIVE insert_sorted_ascending(_, _)
insert_sorted_ascending(sorted, t) ==
  IF sorted = <<>> THEN <<t>>
  ELSE IF Head(sorted).last_message_date <= t.last_message_date
  THEN <<Head(sorted)>> \o insert_sorted_ascending(Tail(sorted), t)
  ELSE <<t>> \o sorted

\* line 1597: the stable sort_by with b.cmp(a) puts t behind every thread
\* that is as recent or more recent
RECURSIVE insert_sorted(_, _)
insert_sorted(sorted, t) ==
  IF sorted = <<>> THEN <<t>>
  ELSE IF Head(sorted).last_message_date >= t.last_message_date
  THEN <<Head(sorted)>> \o insert_sorted(Tail(sorted), t)
  ELSE <<t>> \o sorted

RECURSIVE sort_by_date_desc(_)
sort_by_date_desc(threads) ==
  IF threads = <<>> THEN <<>>
  ELSE insert_sorted(sort_by_date_desc(SubSeq(threads, 1, Len(threads) - 1)),
                     threads[Len(threads)])

\* lines 1593-1604: the non-empty buckets in the fixed order, each sorted
RECURSIVE collect_groups(_, _)
collect_groups(groups, labels) ==
  IF labels = <<>> THEN <<>>
  ELSE (IF groups[Head(labels)] = <<>> THEN <<>>
        ELSE <<[label |-> Head(labels), threads |-> sort_by_date_desc(groups[Head(labels)])]>>)
       \o collect_groups(groups, Tail(labels))

\* the local dates of "now": a Thursday, a Sunday and a Monday
Todays == {1001, 1004, 1005}

NowValues == {day * 24 + h : day \in Todays, h \in {0, 12, 23}}

Offsets == {0 - 5, 0, 2}

\* the days of a message relative to today
RelativeDays == {0 - 31, 0 - 30, 0 - 7, 0 - 2, 0 - 1, 0, 1}

\* classify_date called on its own, and group_threads_by_date likewise
InitClassify ==
  /\ stored = [a \in Accounts |-> None]
  /\ proc = [p \in Procs |-> IdleProc]
  /\ cleared = [a \in Accounts |-> "no"]
  /\ pendingRetry = [a \in Accounts |-> None]
  /\ db = EmptyDb /\ icloud = EmptyICloud
  /\ \E now \in NowValues, offset \in Offsets, rel \in (0 - 33)..9, h \in {0, 12, 23} :
       call = [fn |-> "classify_date", pc |-> "start",
               date |-> (date_naive(now, offset) + rel) * 24 + h - offset,
               now |-> now, offset |-> offset, result |-> None]

ClassifyDate ==
  /\ call.fn = "classify_date" /\ call.pc = "start"
  /\ call' = [call EXCEPT !.pc = "done",
                          !.result = Some(classify_date(call.date, call.now, call.offset))]
  /\ UNCHANGED <<stored, proc, cleared, pendingRetry, db, icloud>>

SpecClassify == InitClassify /\ [][ClassifyDate]_vars

InitGroup ==
  /\ stored = [a \in Accounts |-> None]
  /\ proc = [p \in Procs |-> IdleProc]
  /\ cleared = [a \in Accounts |-> "no"]
  /\ pendingRetry = [a \in Accounts |-> None]
  /\ db = EmptyDb /\ icloud = EmptyICloud
  /\ \E now \in {day * 24 + h : day \in Todays, h \in {12, 23}}, n \in 0..MaxThreads :
     \E rel \in [1..n -> RelativeDays] :
       call = [fn |-> "group_threads_by_date", pc |-> "loop",
               threads |-> [i \in 1..n |->
                              [gmail_thread_id |-> i,
                               last_message_date |-> now + rel[i] * 24]],
               clock |-> now, offset |-> 0,
               k |-> 1,
               groups |-> [l \in Range(order) |-> <<>>],
               nows |-> <<>>,
               result |-> None]

\* group_threads_by_date, lines 1584-1588: one iteration; the clock is read
\* anew by every classify_date and may have moved on
ClassifyThread ==
  /\ call.fn = "group_threads_by_date" /\ call.pc = "loop"
  /\ call.k <= Len(call.threads)
  /\ \E now \in {call.clock, call.clock + 1} :
       LET thread == call.threads[call.k]
           label == as_str(classify_date(thread.last_message_date, now, call.offset))
       IN call' = [call EXCEPT !.clock = now,
                               !.k = @ + 1,
                               !.groups = push(@, label, thread),
                               !.nows = Append(@, now)]
  /\ UNCHANGED <<stored, proc, cleared, pendingRetry, db, icloud>>

\* group_threads_by_date, lines 1590-1604
CollectGroups ==
  /\ call.fn = "group_threads_by_date" /\ call.pc = "loop"
  /\ call.k > Len(call.threads)
  /\ call' = [call EXCEPT !.pc = "done", !.result = Some(collect_groups(call.groups, order))]
  /\ UNCHANGED <<stored, proc, cleared, pendingRetry, db, icloud>>

NextGroup == ClassifyThread \/ CollectGroups

SpecGroup == InitGroup /\ [][NextGroup]_vars

\* ---------------------------------------------------------------- ICS inputs
MaxIcsLines == 2

\* what can stand before the first BEGIN:VEVENT line
IcsPreludes ==
  { <<BEGIN_VCALENDAR>>,
    <<BEGIN_VCALENDAR, <<"METHOD", ":", "REPLY">>>>,
    <<BEGIN_VCALENDAR, <<"BEGIN", ":", "VTIMEZONE">>,
      <<"DTSTART", ":">> \o Date20240115 \o <<"T">> \o Time100000,
      <<"END", ":", "VTIMEZONE">>>>,
    <<BEGIN_VCALENDAR, <<"X-NOTE", ":", "END", ":", "VEVENT">>>>,
    <<<<"PRODID", ":", "x">>>> }

\* the property lines of an event
IcsEventLines ==
  { <<"SUMMARY", ":", "Standup">>,
    <<"DTSTART", ":">> \o Date20240115 \o <<"T">> \o Time100000 \o <<"Z">>,
    <<SP, "DTSTART", ";", "TZID=Europe/Rome", ":">> \o Date20240115 \o <<"T">> \o Time100000,
    <<"DTSTART", ";", "VALUE=DATE", ":">> \o Date20240115,
    <<"DTSTART", ":", "soon">>,
    <<"DTSTART">>,
    <<"DTEND", ":">> \o Date20240115 \o <<"T">> \o Time100000 \o <<"Z">>,
    <<"DTEND", ":", "later">>,
    <<"ATTENDEE", ";", "CN=Bob", ":", "mailto", ":", "b@x.com">>,
    <<"ORGANIZER", ":", "mailto", ":", "o@x.com">> }

\* what can stand behind the lines of the first event
IcsEndings ==
  { <<END_VEVENT, END_VCALENDAR>>,
    <<END_VEVENT, BEGIN_VEVENT,
      <<"DTSTART", ":">> \o Date20240115, END_VEVENT, END_VCALENDAR>>,
    <<END_VCALENDAR>> }

\* the text made of a prelude, the first event's lines and an ending
IcsText(pre, body, ending) == Text(pre \o <<BEGIN_VEVENT>> \o body \o ending)

\* the host's distance from UTC, in seconds
IcsOffsets == {0, 7200}

\* parse_ics_content called on its own
InitIcs ==
  /\ stored = [a \in Accounts |-> None]
  /\ proc = [p \in Procs |-> IdleProc]
  /\ cleared = [a \in Accounts |-> "no"]
  /\ pendingRetry = [a \in Accounts |-> None]
  /\ db = EmptyDb /\ icloud = EmptyICloud
  /\ \E pre \in IcsPreludes, n \in 0..MaxIcsLines, ending \in IcsEndings, offset \in IcsOffsets :
       \E body \in [1..n -> IcsEventLines] :
         call = [fn |-> "parse_ics_content", pc |-> "start",
                 ics_data |-> IcsText(pre, body, ending), offset |-> offset, result |-> None]

ParseIcs ==
  /\ call.fn = "parse_ics_content" /\ call.pc = "start"
  /\ LET r == parse_ics_content(call.ics_data, call.offset)
     IN call' = IF r = Panic THEN [call EXCEPT !.pc = "panicked"]
                ELSE [call EXCEPT !.pc = "done", !.result = r]
  /\ UNCHANGED <<stored, proc, cleared, pendingRetry, db, icloud>>

SpecIcs == InitIcs /\ [][ParseIcs]_vars

\* ---------------------------------------------------------------- ICS datetime inputs
\* a number written with two and with four digits
TwoDigits(n) == <<Digits[((n \div 10) % 10) + 1], Digits[(n % 10) + 1]>>
FourDigits(n) == TwoDigits(n \div 100) \o TwoDigits(n % 100)

\* the values parse_ics_datetime is called with: the two accepted shapes,
\* a local time, and values that miss a shape or hold a bad component
DtShapes == {"date", "utc", "local", "padded", "short", "noT", "letter", "signed"}

DtValue(shape, y, m, d, h, mi, s) ==
  LET date == FourDigits(y) \o TwoDigits(m) \o TwoDigits(d)
      time == TwoDigits(h) \o TwoDigits(mi) \o TwoDigits(s)
  IN CASE shape = "date" -> date
       [] shape = "utc" -> date \o <<"T">> \o time \o <<"Z">>
       [] shape = "local" -> date \o <<"T">> \o time
       [] shape = "padded" -> <<SP>> \o date \o <<"T">> \o time \o <<"Z", SP>>
       [] shape = "short" -> SubSeq(date, 1, 7)
       [] shape = "noT" -> date \o time
       [] shape = "letter" -> date \o <<"T">> \o TwoDigits(h) \o <<"x">> \o Tail(TwoDigits(mi))
                                \o TwoDigits(s) \o <<"Z">>
       [] shape = "signed" -> FourDigits(y) \o <<"+">> \o Tail(TwoDigits(m)) \o TwoDigits(d)

DtYears == {1970, 2023, 2024}
DtMonths == {1, 2, 12, 13}
DtDays == {0, 1, 29, 31}
DtHours == {0, 23, 24}
DtMinutes == {0, 59}
DtSeconds == {0, 59, 60}
DtOffsets == {0 - 18000, 0, 7200}

\* parse_ics_datetime called on its own
InitDatetime ==
  /\ stored = [a \in Accounts |-> None]
  /\ proc = [p \in Procs |-> IdleProc]
  /\ cleared = [a \in Accounts |-> "no"]
  /\ pendingRetry = [a \in Accounts |-> None]
  /\ db = EmptyDb /\ icloud = EmptyICloud
  /\ \E shape \in DtShapes, y \in DtYears, m \in DtMonths, d \in DtDays,
        h \in DtHours, mi \in DtMinutes, s \in DtSeconds, offset \in DtOffsets :
       call = [fn |-> "parse_ics_datetime", pc |-> "start",
               value |-> DtValue(shape, y, m, d, h, mi, s), offset |-> offset, result |-> None]

ParseDatetime ==
  /\ call.fn = "parse_ics_datetime" /\ call.pc = "start"
  /\ call' = [call EXCEPT !.pc = "done", !.result = parse_ics_datetime(call.value, call.offset)]
  /\ UNCHANGED <<stored, proc, cleared, pendingRetry, db, icloud>>

SpecDatetime == InitDatetime /\ [][ParseDatetime]_vars

\* ---------------------------------------------------------------- cards: cache tables
\* models.rs:34-47; name stands for the columns name, query, collapsed, color,
\* group_by and card_type, which are read and written together
Card(id, account_id, name, position) ==
  [id |-> id, account_id |-> account_id, name |-> name, position |-> position]

\* models.rs:11-19
Account(id, email) == [id |-> id, email |-> email]

\* the email as it is written
to_lowercase_same(email) == email

\* str::to_lowercase of the emails that occur
to_lowercase(email) == IF email = "User@X.com" THEN "user@x.com" ELSE email

\* a failed statement, a poisoned lock or a database that is not initialized
DbError == <<"database", "error">>

\* CacheDb::get_accounts: db.accounts is kept in the order of ORDER BY email
get_accounts(d) == d.accounts

\* a card of the set with the smallest position; which one of several is left
\* open by ORDER BY position, and only the set of the cards read is used
FirstCard(S) == CHOOSE c \in S : \A o \in S : c.position <= o.position

\* CacheDb::get_cards: the account's cards ORDER BY position
RECURSIVE by_position(_)
by_position(S) == IF S = {} THEN <<>> ELSE <<FirstCard(S)>> \o by_position(S \ {FirstCard(S)})

get_cards(d, account_id) == by_position({c \in d.cards : c.account_id = account_id})

\* CacheDb::insert_card: a plain INSERT, which the primary key on id rejects
\* for an id that is in the table
insert_card(d, card) ==
  IF \E c \in d.cards : c.id = card.id
  THEN Err(<<"UNIQUE", "constraint", "failed:", "cards.id">>)
  ELSE Ok([db |-> [d EXCEPT !.cards = @ \cup {card}]])

\* CacheDb::update_card: UPDATE .. WHERE id; account_id is not among the
\* columns it sets
update_card(d, card) ==
  [d EXCEPT !.cards = {IF c.id = card.id
                       THEN [c EXCEPT !.name = card.name, !.position = card.position]
                       ELSE c : c \in @}]

\* CacheDb::delete_card
delete_card(d, id) == [d EXCEPT !.cards = {c \in @ : c.id # id}]

\* ---------------------------------------------------------------- cards: key-value store
\* a string stored under a key: the JSON text of a value, the empty string, or
\* a text that is not JSON of the expected type
Json(v) == [kind |-> "json", value |-> v]
EmptyString == [kind |-> "empty"]
Garbage == [kind |-> "garbage"]

\* ICloudKVStore::load_cards and load_account_mappings
load(stored_string) ==
  IF stored_string = None THEN Ok([value |-> None])
  ELSE IF stored_string[1].kind = "empty" THEN Ok([value |-> None])
  ELSE IF stored_string[1].kind = "garbage" THEN Err(<<"expected", "value">>)
  ELSE Ok([value |-> Some(stored_string[1].value)])

\* HashMap::get on a map kept as a set of <<key, value>> pairs
map_get(m, k) == IF \E p \in m : p[1] = k THEN Some((CHOOSE p \in m : p[1] = k)[2]) ELSE None

\* ---------------------------------------------------------------- pull_from_icloud
\* commands.rs:1126-1127: accounts.iter().map(|a| (a.email.to_lowercase(), a)).collect(),
\* where a later account replaces an earlier one under the same key
RECURSIVE by_email(_, _)
by_email(accounts, email) ==
  IF accounts = <<>> THEN None
  ELSE IF to_lowercase(accounts[Len(accounts)].email) = email THEN Some(accounts[Len(accounts)])
  ELSE by_email(SubSeq(accounts, 1, Len(accounts) - 1), email)

\* an orphaned card is kept under its own account id
resolve_keep(card, accounts, account_mappings) == Some(card)

\* commands.rs:1141-1178: Some(card with a local account id) or None to skip
resolve(card, accounts, account_mappings) ==
  IF \E i \in DOMAIN accounts : accounts[i].id = card.account_id THEN Some(card)
  ELSE LET old_email == map_get(account_mappings, card.account_id)
           local_account == IF old_email = None THEN None
                            ELSE by_email(accounts, to_lowercase(old_email[1]))
       IN IF local_account # None THEN Some([card EXCEPT !.account_id = local_account[1].id])
          ELSE IF Len(accounts) = 1 THEN Some([card EXCEPT !.account_id = accounts[1].id])
          ELSE None

\* commands.rs:1139-1190: the merge loop from card i on; log is the history of
\* what was done for each remote card
RECURSIVE merge(_, _, _, _, _, _, _, _)
merge(icloud_cards, i, accounts, account_mappings, local_card_ids, d, changes_made, log) ==
  IF i > Len(icloud_cards) THEN [db |-> d, result |-> Ok([value |-> changes_made]), log |-> log]
  ELSE LET card == resolve(icloud_cards[i], accounts, account_mappings)
       IN IF card = None
          THEN merge(icloud_cards, i + 1, accounts, account_mappings, local_card_ids, d,
                     changes_made, Append(log, [op |-> "skip", card |-> icloud_cards[i]]))
          ELSE IF card[1].id \notin local_card_ids
          THEN LET r == insert_card(d, card[1])
               IN IF r.tag = "Err"
                  THEN [db |-> d, result |-> r,
                        log |-> Append(log, [op |-> "rejected", card |-> card[1]])]
                  ELSE merge(icloud_cards, i + 1, accounts, account_mappings, local_card_ids,
                             r.db, TRUE, Append(log, [op |-> "insert", card |-> card[1]]))
          ELSE merge(icloud_cards, i + 1, accounts, account_mappings, local_card_ids,
                     update_card(d, card[1]), TRUE,
                     Append(log, [op |-> "update", card |-> card[1]]))

\* commands.rs:1091-1106: read both keys under the store's lock
PullLoad ==
  /\ call.fn = "pull_from_icloud" /\ call.pc = "start"
  /\ LET cards == load(icloud.posta_cards)
         mappings == load(icloud.posta_account_mappings)
     IN call' =
          IF cards.tag = "Err" THEN [call EXCEPT !.pc = "done", !.result = cards]
          ELSE IF mappings.tag = "Err" THEN [call EXCEPT !.pc = "done", !.result = mappings]
          ELSE IF cards.value = None \/ cards.value[1] = <<>>
          THEN [call EXCEPT !.pc = "done", !.result = Ok([value |-> FALSE])]
          ELSE [call EXCEPT !.pc = "merge", !.icloud_cards = cards.value[1],
                            !.account_mappings = IF mappings.value = None THEN {}
                                                 ELSE mappings.value[1]]
  /\ UNCHANGED <<stored, proc, cleared, pendingRetry, db, icloud>>

\* commands.rs:1108-1190: the merge under the cache's lock
PullMerge ==
  /\ call.fn = "pull_from_icloud" /\ call.pc = "merge"
  /\ \E db_ok \in BOOLEAN :
       IF ~db_ok
       THEN /\ call' = [call EXCEPT !.pc = "done", !.result = Err(DbError)]
            /\ db' = db
       ELSE LET accounts == get_accounts(db)
                local_card_ids ==
                  UNION {{get_cards(db, accounts[a].id)[k].id :
                            k \in DOMAIN get_cards(db, accounts[a].id)} : a \in DOMAIN accounts}
                m == merge(call.icloud_cards, 1, accounts, call.account_mappings,
                           local_card_ids, db, FALSE, <<>>)
            IN /\ db' = m.db
               /\ call' = [call EXCEPT !.pc = "done", !.result = m.result, !.log = m.log]
  /\ UNCHANGED <<stored, proc, cleared, pendingRetry, icloud>>

NextPull == PullLoad \/ PullMerge

\* ---------------------------------------------------------------- pull_from_icloud inputs
MaxRemoteCards == 2

\* the accounts table, in the order of the emails' bytes
LocalAccounts ==
  { <<>>,
    <<Account("NEW1", "User@X.com")>>,
    <<Account("NEW1", "User@X.com"), Account("NEW2", "b@y.com")>>,
    <<Account("NEW1", "User@X.com"), Account("NEW2", "user@x.com")>> }

\* the cards table
LocalCards ==
  { one \cup two :
      one \in {{}} \cup {{Card("c1", a, "n1", 0)} : a \in {"NEW1", "NEW2", "OLD1"}},
      two \in {{}, {Card("c2", "NEW1", "n2", 0)}} }

\* the cards of the remote list
RemoteCards ==
  {Card("c1", a, n, 0) : a \in {"NEW1", "NEW2", "OLD1"}, n \in {"n1", "n2"}}
    \cup {Card("c2", a, "n2", 0) : a \in {"NEW1", "OLD1"}}

\* what is stored under posta_account_mappings
RemoteMappings ==
  { None, Some(EmptyString), Some(Garbage), Some(Json({<<"OLD1", "user@x.com">>})),
    Some(Json({<<"OLD1", "gone@z.com">>})) }

\* pull_from_icloud called on a cache and a store
InitPull ==
  /\ stored = [a \in Accounts |-> None]
  /\ proc = [p \in Procs |-> IdleProc]
  /\ cleared = [a \in Accounts |-> "no"]
  /\ pendingRetry = [a \in Accounts |-> None]
  /\ \E accounts \in LocalAccounts, cards \in LocalCards : db = [accounts |-> accounts, cards |-> cards]
  /\ \E mappings \in RemoteMappings :
       \/ \E s \in {None, Some(EmptyString), Some(Garbage)} :
            icloud = [posta_cards |-> s, posta_account_mappings |-> mappings]
       \/ \E n \in 0..MaxRemoteCards : \E list \in [1..n -> RemoteCards] :
            icloud = [posta_cards |-> Some(Json(list)), posta_account_mappings |-> mappings]
  /\ call = [fn |-> "pull_from_icloud", pc |-> "start", before |-> db,
             icloud_cards |-> <<>>, account_mappings |-> {}, result |-> None, log |-> <<>>]

SpecPull == InitPull /\ [][NextPull]_vars

\* ---------------------------------------------------------------- card commands
MaxCommands == 2

\* Card::new draws a fresh uuid: an id that neither the cache nor the store knows
StoredCards(ic) ==
  IF ic.posta_cards # None /\ ic.posta_cards[1].kind = "json"
  THEN {ic.posta_cards[1].value[k] : k \in DOMAIN ic.posta_cards[1].value} ELSE {}

new_v4(d, ic) ==
  LET taken == {c.id : c \in d.cards \cup StoredCards(ic)}
      fresh == <<"c3", "c4", "c5", "c6">>
  IN fresh[CHOOSE k \in DOMAIN fresh : fresh[k] \notin taken /\ \A j \in 1..(k - 1) : fresh[j] \in taken]

\* CacheDb::reorder_cards, which commands.rs:447 calls: each pair sets the position of the card of that id
RECURSIVE reorder_cards(_, _)
reorder_cards(d, orders) ==
  IF orders = <<>> THEN d
  ELSE reorder_cards([d EXCEPT !.cards = {IF c.id = Head(orders)[1]
                                          THEN [c EXCEPT !.position = Head(orders)[2]]
                                          ELSE c : c \in @}],
                     Tail(orders))

\* no command is running; n commands have been run
CardIdle(n) ==
  [fn |-> "none", pc |-> "idle", n |-> n, all_cards |-> <<>>, account_mappings |-> {},
   result |-> None, mirrored |-> FALSE]

CanStart == call.pc \in {"idle", "done"} /\ call.n < MaxCommands

\* the block of a command that holds the cache's lock: the statement either
\* fails, and the command returns the error, or is followed by sync_cards_to_icloud
AfterMutation(fn, ok, d, value) ==
  /\ db' = IF ok THEN d ELSE db
  /\ call' = [CardIdle(call.n + 1) EXCEPT !.fn = fn,
                                          !.pc = IF ok THEN "sync_read" ELSE "done",
                                          !.result = IF ok THEN Ok([value |-> value])
                                                     ELSE Err(DbError)]
  /\ UNCHANGED <<stored, proc, cleared, pendingRetry, icloud>>

\* commands.rs:385-416
CreateCard ==
  /\ CanStart
  /\ \E account_id \in {"NEW1", "NEW2"}, name \in {"n1"}, ok \in BOOLEAN :
       LET card == Card(new_v4(db, icloud), account_id, name, Len(get_cards(db, account_id)))
       IN AfterMutation("create_card", ok, insert_card(db, card).db, card)

\* commands.rs:418-428
UpdateCard ==
  /\ CanStart
  /\ \E id \in {"c1", "c2"}, name \in {"n1", "n2"}, ok \in BOOLEAN :
       AfterMutation("update_card", ok, update_card(db, Card(id, "NEW1", name, 0)), "unit")

\* commands.rs:430-440
DeleteCard ==
  /\ CanStart
  /\ \E id \in {"c1", "c2"}, ok \in BOOLEAN :
       AfterMutation("delete_card", ok, delete_card(db, id), "unit")

\* commands.rs:442-452
ReorderCards ==
  /\ CanStart
  /\ \E orders \in {<<>>, <<<<"c1", 1>>, <<"c2", 0>>>>}, ok \in BOOLEAN :
       AfterMutation("reorder_cards", ok, reorder_cards(db, orders), "unit")

\* only the first account's cards are collected
collect_first_account(d, accounts, failed) ==
  IF accounts = <<>> \/ Head(accounts).id \in failed THEN <<>> ELSE get_cards(d, Head(accounts).id)

\* the accounts' cards, account after account; the accounts whose get_cards
\* fails are left out
RECURSIVE collect_cards(_, _, _)
collect_cards(d, accounts, failed) ==
  IF accounts = <<>> THEN <<>>
  ELSE (IF Head(accounts).id \in failed THEN <<>> ELSE get_cards(d, Head(accounts).id))
         \o collect_cards(d, Tail(accounts), failed)

\* sync_cards_to_icloud, commands.rs:83-112: the reads under the cache's lock
SyncRead ==
  /\ call.pc = "sync_read"
  /\ \E accounts_ok \in BOOLEAN, failed \in SUBSET {"NEW1"} :
       call' = IF ~accounts_ok THEN [call EXCEPT !.pc = "done"]
               ELSE LET accounts == get_accounts(db)
                    IN [call EXCEPT
                          !.pc = "sync_write",
                          !.all_cards = collect_cards(db, accounts, failed),
                          !.account_mappings =
                             {<<accounts[i].id, accounts[i].email>> : i \in DOMAIN accounts},
                          !.mirrored = \A i \in DOMAIN accounts : accounts[i].id \notin failed]
  /\ UNCHANGED <<stored, proc, cleared, pendingRetry, db, icloud>>

\* ICloudKVStore::sync_cards and sync_account_mappings, kvstore.rs:33-77
publish(ic, all_cards, account_mappings) ==
  [posta_cards |-> Some(Json(all_cards)), posta_account_mappings |-> Some(Json(account_mappings))]

\* sync_cards_to_icloud, commands.rs:113-117: the writes under the store's lock
SyncWrite ==
  /\ call.pc = "sync_write"
  /\ \E lock_ok \in BOOLEAN :
       /\ icloud' = IF lock_ok THEN publish(icloud, call.all_cards, call.account_mappings)
                    ELSE icloud
       /\ call' = [call EXCEPT !.pc = "done", !.mirrored = @ /\ lock_ok]
  /\ UNCHANGED <<stored, proc, cleared, pendingRetry, db>>

NextCards == CreateCard \/ UpdateCard \/ DeleteCard \/ ReorderCards \/ SyncRead \/ SyncWrite

\* the commands start on a cache with accounts and cards and a store that
\* holds nothing or what an earlier installation left
InitCards ==
  /\ stored = [a \in Accounts |-> None]
  /\ proc = [p \in Procs |-> IdleProc]
  /\ cleared = [a \in Accounts |-> "no"]
  /\ pendingRetry = [a \in Accounts |-> None]
  /\ \E accounts \in LocalAccounts, cards \in LocalCards : db = [accounts |-> accounts, cards |-> cards]
  /\ icloud \in {EmptyICloud,
                 [posta_cards |-> Some(Json(<<Card("c9", "OLD1", "n1", 0)>>)),
                  posta_account_mappings |-> Some(Json({<<"OLD1", "user@x.com">>}))]}
  /\ call = CardIdle(0)

SpecCards == InitCards /\ [][NextCards]_vars

\* ---------------------------------------------------------------- calendar.rs: time range
\* instants and durations are whole hours
HoursPerDay == 24

\* calendar.rs:472-486
parse_duration(s) ==
  IF Len(s) < 2 THEN None
  ELSE LET num == parse_int(SubSeq(s, 1, Len(s) - 1), TRUE)
           unit == s[Len(s)]
       IN IF num = None THEN None
          ELSE CASE unit = "d" -> Some(num[1] * HoursPerDay)
                 [] unit = "w" -> Some(num[1] * 7 * HoursPerDay)
                 [] unit = "m" -> Some(num[1] * 30 * HoursPerDay)
                 [] unit = "y" -> Some(num[1] * 365 * HoursPerDay)
                 [] OTHER -> None

\* calendar.rs:509-522: the value behind "calendar:", in lower case
parse_time_range(value) ==
  CASE value = <<"today">> -> [kind |-> "Today"]
    [] value = <<"tomorrow">> -> [kind |-> "Tomorrow"]
    [] value = <<"week">> -> [kind |-> "Week"]
    [] value = <<"month">> -> [kind |-> "Month"]
    [] OTHER -> IF parse_duration(value) # None
                THEN [kind |-> "Upcoming", duration |-> parse_duration(value)[1]]
                ELSE [kind |-> "Today"]

\* now.date_naive().and_hms_opt(0, 0, 0).unwrap().and_utc()
today_start(now) == (now \div HoursPerDay) * HoursPerDay

\* calendar.rs:548-570
get_time_range(time_range, now) ==
  CASE time_range.kind = "Today" -> <<today_start(now), today_start(now) + HoursPerDay>>
    [] time_range.kind = "Tomorrow" ->
         <<today_start(now) + HoursPerDay, today_start(now) + 2 * HoursPerDay>>
    [] time_range.kind = "Week" -> <<today_start(now), today_start(now) + 7 * HoursPerDay>>
    [] time_range.kind = "Month" -> <<today_start(now), today_start(now) + 30 * HoursPerDay>>
    [] time_range.kind = "Upcoming" -> <<now, now + time_range.duration>>

\* the values behind "calendar:" and the hours at which the query is evaluated
CalendarValues ==
  { <<"today">>, <<"tomorrow">>, <<"week">>, <<"month">>, <<"7", "d">>, <<"1", "d">>,
    <<"3", "0", "d">>, <<"2", "w">>, <<"1", "m">>, <<"1", "y">>, <<"d">>, <<"7">>,
    <<"7", "x">>, <<"x", "d">>, <<"-", "1", "d">> }

QueryHours == {day * HoursPerDay + h : day \in {19737, 19738}, h \in {0, 1, 13, 23}}

InitTimeRange ==
  /\ stored = [a \in Accounts |-> None]
  /\ proc = [p \in Procs |-> IdleProc]
  /\ cleared = [a \in Accounts |-> "no"]
  /\ pendingRetry = [a \in Accounts |-> None]
  /\ db = EmptyDb /\ icloud = EmptyICloud
  /\ \E value \in CalendarValues, now \in QueryHours :
       call = [fn |-> "get_time_range", pc |-> "parse", value |-> value, now |-> now,
               time_range |-> [kind |-> "Today"], result |-> None]

\* CalendarQuery::parse("calendar:<value>")
ParseQuery ==
  /\ call.fn = "get_time_range" /\ call.pc = "parse"
  /\ call' = [call EXCEPT !.pc = "range", !.time_range = parse_time_range(call.value)]
  /\ UNCHANGED <<stored, proc, cleared, pendingRetry, db, icloud>>

\* CalendarQuery::get_time_range
GetTimeRange ==
  /\ call.fn = "get_time_range" /\ call.pc = "range"
  /\ call' = [call EXCEPT !.pc = "done", !.result = Some(get_time_range(call.time_range, call.now))]
  /\ UNCHANGED <<stored, proc, cleared, pendingRetry, db, icloud>>

NextTimeRange == ParseQuery \/ GetTimeRange

SpecTimeRange == InitTimeRange /\ [][NextTimeRange]_vars

\* ---------------------------------------------------------------- part trees
MaxParts == 3

\* what the body of a part can be: absent, without attachment id, without
\* size, of size zero, or with both an id and a size above zero
BodyKinds == {"nobody", "noid", "nosize", "zero", "sized"}

\* the MessagePartBody of part i: its attachment id, where it has one, is i
BodyOf(i, kind) ==
  CASE kind = "nobody" -> None
    [] kind = "noid" -> Some([attachment_id |-> None, size |-> Some(5)])
    [] kind = "nosize" -> Some([attachment_id |-> Some(i), size |-> None])
    [] kind = "zero" -> Some([attachment_id |-> Some(i), size |-> Some(0)])
    [] kind = "sized" -> Some([attachment_id |-> Some(i), size |-> Some(5)])

\* the parts numbered above i, in ascending order, whose parent is part i;
\* parent 0 is the payload
RECURSIVE PartsUnder(_, _, _, _)
PartsUnder(i, from, kind, parent) ==
  IF from > Len(parent) THEN <<>>
  ELSE (IF parent[from] = i
        THEN <<[filename |-> Some(<<"f">>), mime_type |-> Pdf, headers |-> None,
                body |-> BodyOf(from, kind[from]),
                parts |-> LET sub == PartsUnder(from, from + 1, kind, parent)
                          IN IF sub = <<>> THEN None ELSE Some(sub)]>>
        ELSE <<>>)
       \o PartsUnder(i, from + 1, kind, parent)

\* extract_attachments_from_parts called on the parts of a payload: a tree of
\* up to MaxParts parts
InitParts ==
  /\ stored = [a \in Accounts |-> None]
  /\ proc = [p \in Procs |-> IdleProc]
  /\ cleared = [a \in Accounts |-> "no"]
  /\ pendingRetry = [a \in Accounts |-> None]
  /\ db = EmptyDb /\ icloud = EmptyICloud
  /\ \/ call = [fn |-> "extract_attachments_from_parts", pc |-> "start", kind |-> <<>>,
                parent |-> <<>>, parts |-> None, result |-> <<>>]
     \/ \E n \in 0..MaxParts :
          \E kind \in [1..n -> BodyKinds] :
            \E parent \in {f \in [1..n -> 0..MaxParts] : \A i \in 1..n : f[i] < i} :
              call = [fn |-> "extract_attachments_from_parts", pc |-> "start", kind |-> kind,
                      parent |-> parent, parts |-> Some(PartsUnder(0, 1, kind, parent)),
                      result |-> <<>>]

ExtractAttachments ==
  /\ call.fn = "extract_attachments_from_parts" /\ call.pc = "start"
  /\ call' = [call EXCEPT !.pc = "done", !.result = extract_attachments_from_parts(call.parts)]
  /\ UNCHANGED <<stored, proc, cleared, pendingRetry, db, icloud>>

SpecParts == InitParts /\ [][ExtractAttachments]_vars

\* ---------------------------------------------------------------- delete_account, then a pull
\* CacheDb::delete_account, cache/sqlite.rs:145-151: the account's row and the
\* cards of the account
delete_account(d, id) ==
  [accounts |-> Restrict(d.accounts, {a \in Range(d.accounts) : a.id # id}),
   cards |-> {c \in d.cards : c.account_id # id}]

\* the cards a cache with these accounts can hold
OwnedCards == {Card("c1", "NEW1", "n1", 0), Card("c2", "NEW1", "n2", 1), Card("c3", "NEW2", "n1", 0)}

\* a cache whose cards belong to its accounts and a store that holds what
\* sync_cards_to_icloud published for it
InitDeletePull ==
  /\ stored = [a \in Accounts |-> None]
  /\ proc = [p \in Procs |-> IdleProc]
  /\ cleared = [a \in Accounts |-> "no"]
  /\ pendingRetry = [a \in Accounts |-> None]
  /\ \E accounts \in LocalAccounts \ {<<>>}, cards \in SUBSET OwnedCards :
       /\ \A c \in cards : \E i \in DOMAIN accounts : accounts[i].id = c.account_id
       /\ db = [accounts |-> accounts, cards |-> cards]
  /\ icloud = publish(EmptyICloud, collect_cards(db, get_accounts(db), {}),
                      {<<db.accounts[i].id, db.accounts[i].email>> : i \in DOMAIN db.accounts})
  /\ call = [fn |-> "delete_account", pc |-> "start", result |-> None]

\* delete_account, commands.rs:356-371: the rows are deleted under the cache's
\* lock, then the stored refresh token is deleted; the store is not written
DeleteAccount ==
  /\ call.fn = "delete_account" /\ call.pc = "start"
  /\ \E i \in DOMAIN db.accounts, db_ok \in BOOLEAN, token_ok \in BOOLEAN :
       LET account_id == db.accounts[i].id
       IN /\ db' = IF db_ok THEN delete_account(db, account_id) ELSE db
          /\ call' = [call EXCEPT !.pc = "done",
                                  !.result = IF db_ok /\ token_ok THEN Some(Ok([value |-> "unit"]))
                                             ELSE Some(Err(DbError))]
                       @@ [account_id |-> account_id,
                           removed |-> {c \in db.cards : c.account_id = account_id}]
  /\ UNCHANGED <<stored, proc, cleared, pendingRetry, icloud>>

\* pull_from_icloud is called after the account was deleted
PullAfterDelete ==
  /\ call.fn = "delete_account" /\ call.pc = "done"
  /\ call.result[1].tag = "Ok"
  /\ call' = [fn |-> "pull_from_icloud", pc |-> "start", before |-> db,
              icloud_cards |-> <<>>, account_mappings |-> {}, result |-> None, log |-> <<>>,
              account_id |-> call.account_id, removed |-> call.removed]
  /\ UNCHANGED <<stored, proc, cleared, pendingRetry, db, icloud>>

NextDeletePull == DeleteAccount \/ PullAfterDelete \/ PullLoad \/ PullMerge

SpecDeletePull == InitDeletePull /\ [][NextDeletePull]_vars

\* ---------------------------------------------------------------- commands that run together
\* AppState, commands.rs:16-20: db and icloud are each behind a std::sync::Mutex;
\* db_lock and icloud_lock name the command that holds the guard, 0 for none
NoCommand ==
  [kind |-> "none", pc |-> "new", arg |-> <<>>, all_cards |-> <<>>, account_mappings |-> {},
   icloud_cards |-> <<>>, result |-> None]

CardMutations == {"create_card", "update_card", "delete_card", "reorder_cards"}

\* the arguments a command of each kind is called with
ArgsOf(kind) ==
  CASE kind = "create_card" -> {[account_id |-> "NEW1", name |-> "n1"]}
    [] kind = "update_card" -> {Card("c1", "NEW1", "n2", 0)}
    [] kind = "delete_card" -> {"c1", "c2"}
    [] kind = "reorder_cards" -> {<<<<"c1", 1>>, <<"c2", 0>>>>}
    [] OTHER -> {<<>>}

\* the first lock each command asks for
FirstStep(kind) ==
  CASE kind \in CardMutations -> "lock_db"
    [] kind = "force_icloud_sync" -> "sync_lock_db"
    [] kind = "pull_from_icloud" -> "pull_lock_icloud"

Cmd(c) == call.cmd[c]

\* the UI invokes a command
StartCommand(c) ==
  /\ call.fn = "commands" /\ Cmd(c).pc = "new"
  /\ \E kind \in CardMutations \cup {"force_icloud_sync", "pull_from_icloud"} :
       \E arg \in ArgsOf(kind) :
         call' = [call EXCEPT !.cmd[c] = [NoCommand EXCEPT !.kind = kind, !.arg = arg,
                                                           !.pc = FirstStep(kind)]]
  /\ UNCHANGED <<stored, proc, cleared, pendingRetry, db, icloud>>

\* state.db.lock(): commands.rs:84 (sync_cards_to_icloud), 396, 421, 433, 445
\* (the card commands) and 1108 (pull_from_icloud); the caller waits while
\* another command holds the guard
LockDb(c) ==
  /\ call.fn = "commands" /\ Cmd(c).pc \in {"lock_db", "sync_lock_db", "pull_lock_db"}
  /\ call.db_lock = 0
  /\ call' = [call EXCEPT !.db_lock = c,
                          !.cmd[c].pc = CASE Cmd(c).pc = "lock_db" -> "mutate"
                                          [] Cmd(c).pc = "sync_lock_db" -> "sync_read"
                                          [] Cmd(c).pc = "pull_lock_db" -> "pull_merge"]
  /\ UNCHANGED <<stored, proc, cleared, pendingRetry, db, icloud>>

\* state.icloud.lock(): commands.rs:113 (sync_cards_to_icloud) and 1093
\* (pull_from_icloud)
LockICloud(c) ==
  /\ call.fn = "commands" /\ Cmd(c).pc \in {"sync_lock_icloud", "pull_lock_icloud"}
  /\ call.icloud_lock = 0
  /\ call' = [call EXCEPT !.icloud_lock = c,
                          !.cmd[c].pc = IF Cmd(c).pc = "sync_lock_icloud" THEN "sync_write"
                                        ELSE "pull_load"]
  /\ UNCHANGED <<stored, proc, cleared, pendingRetry, db, icloud>>

\* the statement of a card command on the cache
mutation(kind, arg, d, ic) ==
  CASE kind = "create_card" ->
         insert_card(d, Card(new_v4(d, ic), arg.account_id, arg.name,
                             Len(get_cards(d, arg.account_id)))).db
    [] kind = "update_card" -> update_card(d, arg)
    [] kind = "delete_card" -> delete_card(d, arg)
    [] kind = "reorder_cards" -> reorder_cards(d, arg)

\* the guard stays alive until the function returns
drop_guard_at_return(holder) == holder

\* drop(db_guard), commands.rs:112, and the end of the block that holds a
\* guard: the lock is free
drop_guard(holder) == 0

\* create_card, update_card, delete_card, reorder_cards, commands.rs:385-452:
\* the block under the cache's lock; a failed statement returns the error
MutateCards(c) ==
  /\ call.fn = "commands" /\ Cmd(c).pc = "mutate"
  /\ \E ok \in BOOLEAN :
       /\ db' = IF ok THEN mutation(Cmd(c).kind, Cmd(c).arg, db, icloud) ELSE db
       /\ call' = [call EXCEPT !.db_lock = 0,
                               !.cmd[c].pc = IF ok THEN "sync_lock_db" ELSE "done",
                               !.cmd[c].result = IF ok THEN Some(Ok([value |-> "unit"]))
                                                 ELSE Some(Err(DbError))]
  /\ UNCHANGED <<stored, proc, cleared, pendingRetry, icloud>>

\* sync_cards_to_icloud, commands.rs:84-112: the reads, then drop(db_guard)
SyncReadCards(c) ==
  /\ call.fn = "commands" /\ Cmd(c).pc = "sync_read"
  /\ LET accounts == get_accounts(db)
     IN call' = [call EXCEPT
                   !.db_lock = drop_guard(c),
                   !.cmd[c].pc = "sync_lock_icloud",
                   !.cmd[c].all_cards = collect_cards(db, accounts, {}),
                   !.cmd[c].account_mappings =
                      {<<accounts[i].id, accounts[i].email>> : i \in DOMAIN accounts}]
  /\ UNCHANGED <<stored, proc, cleared, pendingRetry, db, icloud>>

\* sync_cards_to_icloud, commands.rs:113-117: the writes; the function returns
\* and its caller returns Ok
SyncWriteCards(c) ==
  /\ call.fn = "commands" /\ Cmd(c).pc = "sync_write"
  /\ icloud' = publish(icloud, Cmd(c).all_cards, Cmd(c).account_mappings)
  /\ call' = [call EXCEPT !.icloud_lock = 0,
                          !.db_lock = IF @ = c THEN 0 ELSE @,
                          !.cmd[c].pc = "done",
                          !.cmd[c].result = Some(Ok([value |-> "unit"]))]
  /\ UNCHANGED <<stored, proc, cleared, pendingRetry, db>>

\* pull_from_icloud, commands.rs:1092-1106: the block under the store's lock
PullLoadCards(c) ==
  /\ call.fn = "commands" /\ Cmd(c).pc = "pull_load"
  /\ LET cards == load(icloud.posta_cards)
         mappings == load(icloud.posta_account_mappings)
         returns == cards.tag = "Err" \/ mappings.tag = "Err" \/ cards.value = None
                      \/ cards.value[1] = <<>>
     IN call' = [call EXCEPT
                   !.icloud_lock = drop_guard(c),
                   !.cmd[c].pc = IF returns THEN "done" ELSE "pull_lock_db",
                   !.cmd[c].result = IF cards.tag = "Err" THEN Some(cards)
                                     ELSE IF mappings.tag = "Err" THEN Some(mappings)
                                     ELSE IF returns THEN Some(Ok([value |-> FALSE]))
                                     ELSE None,
                   !.cmd[c].icloud_cards = IF returns THEN <<>> ELSE cards.value[1],
                   !.cmd[c].account_mappings = IF returns \/ mappings.value = None THEN {}
                                               ELSE mappings.value[1]]
  /\ UNCHANGED <<stored, proc, cleared, pendingRetry, db, icloud>>

\* pull_from_icloud, commands.rs:1108-1190: the merge under the cache's lock,
\* which is held until the function returns
PullMergeCards(c) ==
  /\ call.fn = "commands" /\ Cmd(c).pc = "pull_merge"
  /\ LET accounts == get_accounts(db)
         local_card_ids ==
           UNION {{get_cards(db, accounts[a].id)[k].id :
                     k \in DOMAIN get_cards(db, accounts[a].id)} : a \in DOMAIN accounts}
         m == merge(Cmd(c).icloud_cards, 1, accounts, Cmd(c).account_mappings,
                    local_card_ids, db, FALSE, <<>>)
     IN /\ db' = m.db
        /\ call' = [call EXCEPT !.db_lock = 0,
                                !.cmd[c].pc = "done",
                                !.cmd[c].result = Some(m.result)]
  /\ UNCHANGED <<stored, proc, cleared, pendingRetry, icloud>>

NextCommands ==
  \E c \in Racers :
    \/ StartCommand(c)
    \/ LockDb(c)
    \/ LockICloud(c)
    \/ MutateCards(c)
    \/ SyncReadCards(c)
    \/ SyncWriteCards(c)
    \/ PullLoadCards(c)
    \/ PullMergeCards(c)

\* two commands are invoked on a cache whose cards belong to its accounts and a
\* store that holds what was published for it; both locks are free
InitCommands ==
  /\ stored = [a \in Accounts |-> None]
  /\ proc = [p \in Procs |-> IdleProc]
  /\ cleared = [a \in Accounts |-> "no"]
  /\ pendingRetry = [a \in Accounts |-> None]
  /\ \E cards \in SUBSET OwnedCards :
       db = [accounts |-> <<Account("NEW1", "User@X.com"), Account("NEW2", "b@y.com")>>,
             cards |-> cards]
  /\ icloud = publish(EmptyICloud, collect_cards(db, get_accounts(db), {}),
                      {<<db.accounts[i].id, db.accounts[i].email>> : i \in DOMAIN db.accounts})
  /\ call = [fn |-> "commands", cmd |-> [c \in Racers |-> NoCommand],
             db_lock |-> 0, icloud_lock |-> 0]

SpecCommands == InitCommands /\ [][NextCommands]_vars

\* ---------------------------------------------------------------- sign-in
\* the longest query string of a callback request, in parameters
MaxParams == 2

\* what the authorization server and anyone else can put in a query value
QueryValues == {"k1", "s1", "s2", "%73%31", "%FF"}

\* urlencoding::decode(..).ok(): percent escapes are decoded, and bytes that
\* are not UTF-8 give no value
urlencoding_decode(v) ==
  CASE v = "%73%31" -> Some("s1")
    [] v = "%FF" -> None
    [] OTHER -> Some(v)

\* a parameter of the query: key=value, or a word without "="
QueryParams ==
  [key : {"code", "state", "scope"}, value : QueryValues, eq : {TRUE}]
    \cup {[key |-> "code", value |-> "", eq |-> FALSE]}

RECURSIVE scan_params(_, _, _)
\* extract_code_and_state, callback.rs:132-141: the loop over the parameters
scan_params(params, code, state) ==
  IF params = <<>> THEN [code |-> code, state |-> state]
  ELSE LET kv == Head(params)
       IN IF ~kv.eq THEN scan_params(Tail(params), code, state)
          ELSE IF kv.key = "code"
            THEN scan_params(Tail(params), urlencoding_decode(kv.value), state)
          ELSE IF kv.key = "state"
            THEN scan_params(Tail(params), code, urlencoding_decode(kv.value))
          ELSE scan_params(Tail(params), code, state)

\* extract_code_and_state, callback.rs:118-144; a request is the number of its
\* whitespace-separated parts and the query of its path, if it has one
extract_code_and_state(request) ==
  IF request.parts < 2 THEN None
  ELSE IF request.query = None THEN None
  ELSE LET r == scan_params(request.query[1], None, None)
       IN IF r.code = None THEN None
          ELSE Some([code |-> r.code[1], state |-> r.state])

\* GmailAuth::exchange_code, oauth2.rs:104-158: the pending flow is taken, the
\* received state is compared when there is one, and the token request goes out
exchange_code(pending_auth, code, received_state, status_ok) ==
  IF pending_auth = None
    THEN [sent |-> None, result |-> Err("No pending auth flow")]
  ELSE IF received_state # None /\ received_state[1] # pending_auth[1].state
    THEN [sent |-> None, result |-> Err("State mismatch - possible CSRF attack")]
  ELSE [sent |-> Some([code |-> code, code_verifier |-> pending_auth[1].verifier]),
        result |-> IF status_ok THEN Ok([value |-> "tokens"])
                   ELSE Err("Token exchange failed")]

\* an exchange_code call: its effect, and what it was called with
Exchange(code, received_state, status_ok) ==
  LET e == exchange_code(call.pending_auth, code, received_state, status_ok)
  IN [call EXCEPT !.pending_auth = None,
                  !.sent = e.sent,
                  !.result = Some(e.result),
                  !.received_state = received_state,
                  !.issued = IF call.pending_auth = None THEN None
                             ELSE Some(call.pending_auth[1].state)]

\* GmailAuth::start_auth_flow, oauth2.rs:82-102: a fresh verifier and state
\* replace whatever flow was pending
StartAuthFlow ==
  /\ call.fn = "auth"
  /\ \E verifier \in {"v1", "v2"}, state \in {"s1", "s2"} :
       call' = [call EXCEPT !.pending_auth = Some([verifier |-> verifier, state |-> state]),
                            !.sent = None,
                            !.result = Some(Ok([value |-> state]))]
  /\ UNCHANGED <<stored, proc, cleared, pendingRetry, db, icloud>>

\* wait_for_callback, callback.rs:18-116: a request arrives on the callback
\* port; one without a code is not a callback
WaitForCallback ==
  /\ call.fn = "auth"
  /\ \E parts \in {1, 3} : \E n \in 0..MaxParams : \E q \in [1..n -> QueryParams] :
       \E has_query \in BOOLEAN :
         call' = [call EXCEPT !.callback =
                    extract_code_and_state([parts |-> parts,
                                            query |-> IF has_query THEN Some(q) ELSE None]),
                              !.sent = None]
  /\ UNCHANGED <<stored, proc, cleared, pendingRetry, db, icloud>>

\* run_oauth_flow, commands.rs:271-278: the exchange with what the callback
\* carried
ExchangeCallback ==
  /\ call.fn = "auth" /\ call.callback # None
  /\ \E status_ok \in BOOLEAN :
       call' = [Exchange(call.callback[1].code, call.callback[1].state, status_ok)
                  EXCEPT !.callback = None]
  /\ UNCHANGED <<stored, proc, cleared, pendingRetry, db, icloud>>

\* complete_oauth_flow, commands.rs:220-237: the exchange with what the UI
\* passes
CompleteOAuthFlow ==
  /\ call.fn = "auth"
  /\ \E code \in {"k1"}, received_state \in {None, Some("s1"), Some("s2")},
        status_ok \in BOOLEAN :
       call' = Exchange(code, received_state, status_ok)
  /\ UNCHANGED <<stored, proc, cleared, pendingRetry, db, icloud>>

NextAuth == StartAuthFlow \/ WaitForCallback \/ ExchangeCallback \/ CompleteOAuthFlow

\* GmailAuth::new, oauth2.rs:47-53: no flow is pending
InitAuth ==
  /\ stored = [a \in Accounts |-> None]
  /\ proc = [p \in Procs |-> IdleProc]
  /\ cleared = [a \in Accounts |-> "no"]
  /\ pendingRetry = [a \in Accounts |-> None]
  /\ db = EmptyDb /\ icloud = EmptyICloud
  /\ call = [fn |-> "auth", pending_auth |-> None, callback |-> None, sent |-> None,
             result |-> None, received_state |-> None, issued |-> None]

SpecAuth == InitAuth /\ [][NextAuth]_vars

\* ---------------------------------------------------------------- properties
Done(p) == proc[p].pc = "done"
Res(p) == proc[p].result[1]
Returned(p, tag) == Done(p) /\ Res(p).tag = tag
Acct(p) == proc[p].account_id

\* the delta query of p completed: get_history_changes returned Ok
DeltaOk(p) == proc[p].changes # None

\* the delta query of p failed on a 404 answer
Is404(p) ==
  /\ proc[p].delta_err # None
  /\ proc[p].delta_err[1].kind = "status"
  /\ proc[p].delta_err[1].status = "404"

ThreadIdsOf(threads) == [i \in DOMAIN threads |-> threads[i].gmail_thread_id]

NoDuplicates(s) == \A i, j \in DOMAIN s : s[i] = s[j] => i = j

\* C1: a sync that started from a stored cursor and whose delta query succeeded
\* returns is_full_sync = false and new_history_id = the historyId of the (last)
\* delta response, and on return the account's stored cursor is that value.
C1_DeltaAdvancesCursor ==
  \A p \in Procs :
    (Returned(p, "Ok") /\ proc[p].stored_history_id # None /\ DeltaOk(p)) =>
      /\ Res(p).is_full_sync = FALSE
      /\ Res(p).new_history_id = proc[p].lastHid[1]
      /\ stored[Acct(p)] = Some(Res(p).new_history_id)

C1_Witness ==
  \E p \in Procs :
    /\ Returned(p, "Ok") /\ DeltaOk(p)
    /\ proc[p].stored_history_id = Some(1)
    /\ proc[p].lastHid = Some(2)
    /\ stored[Acct(p)] = Some(2)

\* C2: after a successful delta sync deleted_thread_ids holds exactly the thread
\* ids of the messagesDeleted events, and no other thread id.
C2_DeletedThreadIdsExact ==
  \A p \in Procs :
    (Returned(p, "Ok") /\ DeltaOk(p)) =>
      Range(Res(p).deleted_thread_ids) = proc[p].deletedThreads

\* C3 as stated: a 404 answer of the delta query never ends in an error; the
\* command returns is_full_sync = true with empty lists.
C3_ExpiryNeverErrors ==
  \A p \in Procs :
    (Done(p) /\ Is404(p)) =>
      /\ Res(p).tag = "Ok"
      /\ Res(p).is_full_sync = TRUE
      /\ Res(p).modified_threads = <<>>
      /\ Res(p).deleted_thread_ids = <<>>

\* C3, amended: after a 404 answer the expiry itself is never returned as an
\* error. The command deletes the stored cursor and runs the full-sync path; if
\* the delete, the profile request and the cursor write succeed it returns
\* is_full_sync = true with empty lists and the profile's historyId, which is
\* then the stored cursor; if one of them fails it returns that step's error,
\* with the cursor as it was (failed delete) or absent (later failure).
C3_ExpiryFallsBackToFullSync ==
  \A p \in Procs :
    Is404(p) =>
      /\ proc[p].pc \in {"clear", "profile", "fullpersist", "done"}
      /\ proc[p].pc \in {"profile", "fullpersist"} => stored[Acct(p)] = None
      /\ Returned(p, "Ok") =>
           /\ Res(p).is_full_sync = TRUE
           /\ Res(p).modified_threads = <<>>
           /\ Res(p).deleted_thread_ids = <<>>
           /\ proc[p].profileReqs = 1
           /\ Res(p).new_history_id = proc[p].profileHid[1]
           /\ stored[Acct(p)] = Some(Res(p).new_history_id)
      /\ Returned(p, "Err") =>
           /\ Res(p).msg # ErrExpired
           /\ \/ /\ proc[p].profileReqs = 0
                 /\ Res(p).msg \in DbErrTexts
                 /\ stored[Acct(p)] = proc[p].stored_history_id
              \/ /\ proc[p].profileReqs = 1
                 /\ proc[p].profileHid = None
                 /\ SubSeq(Res(p).msg, 1, 5) = ErrGetHistoryId(<<>>)
                 /\ stored[Acct(p)] = None
              \/ /\ proc[p].profileHid # None
                 /\ Res(p).msg \in DbErrTexts
                 /\ stored[Acct(p)] = None

C3_Witness ==
  \E p \in Procs :
    /\ Is404(p) /\ Returned(p, "Ok")
    /\ Res(p).is_full_sync = TRUE
    /\ proc[p].stored_history_id = Some(1)
    /\ stored[Acct(p)] = Some(2)

\* C4: only a 404 answer is treated as cursor expiry; after any other failure
\* of the delta query the command returns that error unchanged, sends no
\* profile request and leaves the stored cursor as it was.
C4_OnlyA404Expires ==
  \A p \in Procs :
    (proc[p].delta_err # None /\ ~Is404(p)) =>
      /\ Done(p)
      /\ Res(p) = Err(proc[p].delta_err[1].msg)
      /\ proc[p].profileReqs = 0
      /\ stored[Acct(p)] = proc[p].stored_history_id

\* C5: a sync that finds no stored cursor sends no history request and no
\* thread-detail request; its successful return has is_full_sync = true, empty
\* lists and new_history_id = the profile's historyId, which is then the
\* account's stored cursor. (A failed token refresh, profile request or cursor
\* write returns an error and leaves the account without cursor.)
C5_FirstSyncIsFullSync ==
  \A p \in Procs :
    (proc[p].cursor_read /\ proc[p].stored_history_id = None) =>
      /\ proc[p].histReqs = <<>>
      /\ proc[p].batchReqs = <<>>
      /\ proc[p].singleReqs = <<>>
      /\ proc[p].pc \in {"token", "profile", "fullpersist", "done"}
      /\ Returned(p, "Ok") =>
           /\ Res(p).is_full_sync = TRUE
           /\ Res(p).modified_threads = <<>>
           /\ Res(p).deleted_thread_ids = <<>>
           /\ proc[p].profileReqs = 1
           /\ Res(p).new_history_id = proc[p].profileHid[1]
           /\ stored[Acct(p)] = Some(Res(p).new_history_id)
      /\ Returned(p, "Err") => stored[Acct(p)] = None


C5_Witness ==
  \E p \in Procs :
    /\ proc[p].cursor_read
    /\ proc[p].stored_history_id = None
    /\ Returned(p, "Ok")
    /\ Res(p).is_full_sync = TRUE
    /\ Res(p).new_history_id = 2
    /\ stored[Acct(p)] = Some(2)

\* C6: once an account's cursor has been deleted and not written again, the
\* next sync of that account reads no cursor and takes the full-sync path: it
\* sends no history request, and a successful return has is_full_sync = true,
\* whatever syncs of other accounts ran in between.
C6_ClearedForcesFullSync ==
  /\ \A a \in Accounts : cleared[a] # "no" => stored[a] = None
  /\ \A p \in Procs :
       proc[p].afterClear # "no" =>
         /\ proc[p].stored_history_id = None
         /\ proc[p].histReqs = <<>>
         /\ proc[p].pc \in {"token", "profile", "fullpersist", "done"}
         /\ Returned(p, "Ok") => Res(p).is_full_sync = TRUE

C6_Witness ==
  \E p \in Procs :
    /\ proc[p].afterClear = "yes_then_other"
    /\ Returned(p, "Ok")
    /\ Res(p).is_full_sync = TRUE
    /\ proc[p].profileReqs = 1

\* C7: when the delta query succeeded and the cursor write failed, the command
\* returns an error and the stored cursor is still the one the sync started
\* from; the next sync of the account reads that cursor and every history
\* request it sends starts from it.
C7_FailedPersistKeepsOldCursor ==
  \A p \in Procs :
    /\ (Done(p) /\ proc[p].persist_failed) =>
         /\ DeltaOk(p)
         /\ Res(p).tag = "Err"
         /\ stored[Acct(p)] = proc[p].stored_history_id
         /\ stored[Acct(p)] # None
    /\ proc[p].retryOf # None =>
         /\ proc[p].stored_history_id = proc[p].retryOf
         /\ \A i \in DOMAIN proc[p].histReqs :
              proc[p].histReqs[i].startHistoryId = proc[p].retryOf[1]
         /\ proc[p].pc \notin {"token", "history", "done"} => proc[p].histReqs # <<>>
         /\ proc[p].profileReqs > 0 => proc[p].histReqs # <<>>

C7_Witness ==
  \E p \in Procs :
    /\ proc[p].retryOf = Some(1)
    /\ Returned(p, "Ok")
    /\ DeltaOk(p)
    /\ Len(proc[p].histReqs) >= 1
    /\ Res(p).new_history_id = 2

\* C8: get_history_changes requests pages until a page carries no
\* nextPageToken; the modified_thread_ids it returns hold, each exactly once,
\* the thread ids of all messagesAdded, messagesDeleted, labelsAdded and
\* labelsRemoved events of all pages, and new_history_id is the historyId of
\* the last page.
C8_HistoryChangesUnion ==
  \A p \in Procs :
    /\ \A i \in DOMAIN proc[p].histReqs :
         /\ proc[p].histReqs[i].startHistoryId = proc[p].stored_history_id[1]
         /\ (i = 1) <=> (proc[p].histReqs[i].pageToken = None)
    /\ DeltaOk(p) =>
         LET changes == proc[p].changes[1]
         IN /\ proc[p].next_page_token = None
            /\ Range(changes.modified_thread_ids) = proc[p].touched
            /\ NoDuplicates(changes.modified_thread_ids)
            /\ changes.new_history_id = proc[p].lastHid[1]

C8_Witness ==
  \E p \in Procs :
    /\ DeltaOk(p)
    /\ Len(proc[p].histReqs) = 2
    /\ proc[p].repeated
    /\ proc[p].touched = {"T1", "T2"}
    /\ proc[p].deletedThreads = {"T2"}
    /\ proc[p].stored_history_id = Some(1)
    /\ proc[p].changes[1].new_history_id = 2

\* the chunks of reqs whose index is in failed, concatenated in order
RECURSIVE ConcatChunks(_, _, _)
ConcatChunks(reqs, failed, k) ==
  IF k > Len(reqs) THEN <<>>
  ELSE (IF k \in failed THEN reqs[k] ELSE <<>>) \o ConcatChunks(reqs, failed, k + 1)

\* C9: batch_get_thread_details always returns Ok, whatever the network calls
\* answered; the result holds one Thread for every id that the batch response
\* or the sequential fallback delivered, at most one per requested id, and an
\* id that could not be fetched is absent without removing any other Thread.
C9_BatchNeverFails ==
  \A p \in Procs :
    /\ proc[p].pc = "persist" => proc[p].batch_result # None
    /\ proc[p].batch_result # None =>
         /\ proc[p].batch_result[1].tag = "Ok"
         /\ LET ids == ThreadIdsOf(proc[p].batch_result[1].threads)
            IN /\ NoDuplicates(ids)
               /\ Range(ids) = proc[p].obtained
               /\ ids = Restrict(proc[p].thread_ids, proc[p].obtained)

C9_Witness ==
  \E p \in Procs :
    /\ proc[p].batch_result # None
    /\ Len(proc[p].thread_ids) = 3
    /\ proc[p].failedChunks = {1}
    /\ proc[p].thread_ids[1] \notin proc[p].obtained
    /\ proc[p].thread_ids[2] \in proc[p].obtained
    /\ proc[p].thread_ids[3] \in proc[p].obtained

\* C10: when the batch request of a chunk fails, exactly the ids of that chunk
\* are requested one by one; the Threads of earlier chunks stay in the result
\* and the later chunks are still requested.
C10_FallbackPerChunk ==
  \A p \in Procs :
    /\ proc[p].singleReqs = ConcatChunks(proc[p].batchReqs, proc[p].failedChunks, 1)
    /\ proc[p].pc = "batch" =>
         ThreadIdsOf(proc[p].all_threads) =
           Restrict(SubSeq(proc[p].thread_ids, 1, proc[p].next - 1), proc[p].obtained)
    /\ proc[p].batch_result # None =>
         /\ ConcatChunks(proc[p].batchReqs, 1..Len(proc[p].batchReqs), 1) = proc[p].thread_ids
         /\ proc[p].batch_result[1].tag = "Ok" =>
              ThreadIdsOf(proc[p].batch_result[1].threads) =
                Restrict(proc[p].thread_ids, proc[p].obtained)

C10_Witness ==
  \E p \in Procs :
    /\ proc[p].batch_result # None
    /\ Len(proc[p].batchReqs) = 3
    /\ proc[p].failedChunks = {2}
    /\ proc[p].singleReqs = SubSeq(proc[p].thread_ids, 3, 4)
    /\ proc[p].thread_ids[1] \in proc[p].obtained
    /\ proc[p].thread_ids[3] \in proc[p].obtained
    /\ proc[p].thread_ids[4] \notin proc[p].obtained
    /\ proc[p].thread_ids[5] \in proc[p].obtained

\* the ids whose part of a successful batch response did not decode
Unparsed(p) ==
  UNION {Range(proc[p].batchReqs[k]) :
           k \in DOMAIN proc[p].batchReqs \ proc[p].failedChunks} \ proc[p].obtained

\* C11: when the part of one id in a batch response fails to parse, that id is
\* fetched by the sequential fallback, and the Threads parsed from the other
\* parts are returned unchanged.
C11_UnparsedPartFallsBack ==
  \A p \in Procs :
    proc[p].batch_result # None =>
      /\ Unparsed(p) \subseteq Range(proc[p].singleReqs)
      /\ ThreadIdsOf(proc[p].batch_result[1].threads) =
           Restrict(proc[p].thread_ids, proc[p].obtained)

\* the number of chunks of n ids
NumChunks(n) == (n + MAX_BATCH_SIZE - 1) \div MAX_BATCH_SIZE

\* C12: batch_get_thread_details issues one batch request per chunk; a chunk
\* holds at most MAX_BATCH_SIZE ids (all but the last hold exactly that many),
\* the chunks concatenated in request order are the input list, so that every
\* id is in exactly one chunk; for an empty list no request is issued and the
\* result is empty.
C12_ChunksPartitionInput ==
  \A p \in Procs :
    LET reqs == proc[p].batchReqs
        all == ConcatChunks(reqs, DOMAIN reqs, 1)
    IN /\ \A k \in DOMAIN reqs :
            /\ Len(reqs[k]) \in 1..MAX_BATCH_SIZE
            /\ k < Len(reqs) => Len(reqs[k]) = MAX_BATCH_SIZE
       /\ NoDuplicates(all)
       /\ proc[p].pc = "batch" => all = SubSeq(proc[p].thread_ids, 1, proc[p].next - 1)
       /\ proc[p].batch_result # None =>
            /\ all = proc[p].thread_ids
            /\ Len(reqs) = NumChunks(Len(proc[p].thread_ids))
            /\ proc[p].thread_ids = <<>> =>
                 /\ reqs = <<>>
                 /\ proc[p].singleReqs = <<>>
                 /\ proc[p].batch_result[1] = [tag |-> "Ok", threads |-> <<>>]

C12_Witness ==
  \E p \in Procs :
    /\ proc[p].batch_result # None
    /\ Len(proc[p].thread_ids) = 5
    /\ Len(proc[p].batchReqs) = 3
    /\ Len(proc[p].batchReqs[1]) = MAX_BATCH_SIZE
    /\ Len(proc[p].batchReqs[3]) = 1
    /\ proc[p].batchReqs[3][1] = proc[p].thread_ids[5]

\* thread_detail_to_thread has returned its Thread
Reduced == call.fn = "thread_detail_to_thread" /\ call.pc = "done"
ReducedThread == call.result[1].thread
InputMessages == IF call.detail.messages = None THEN <<>> ELSE call.detail.messages[1]

\* the headers of message m, and the value of its first header called name in
\* any capitalisation
HeadersOf(m) ==
  IF m.payload = None \/ m.payload[1].headers = None THEN <<>> ELSE m.payload[1].headers[1]

HeaderValues(m, names) ==
  LET hs == HeadersOf(m)
      at == {k \in DOMAIN hs : hs[k].name \in names}
  IN IF at = {} THEN None ELSE Some(hs[CHOOSE k \in at : \A j \in at : k <= j].value)

\* the address part of a From value: what stands between < and >, else the
\* whole value, without surrounding blanks
AddressOf(value) ==
  LET inner == IF \E k \in DOMAIN value : value[k] = "<"
               THEN SubSeq(value, (CHOOSE k \in DOMAIN value : value[k] = "<") + 1,
                                  (CHOOSE k \in DOMAIN value : value[k] = ">") - 1)
               ELSE value
  IN [k \in 1..Cardinality({j \in DOMAIN inner : inner[j] # SP}) |->
        inner[CHOOSE j \in DOMAIN inner :
                inner[j] # SP /\ Cardinality({x \in 1..j : inner[x] # SP}) = k]]

\* the From addresses of the messages, in message order
RECURSIVE FromAddresses(_)
FromAddresses(ms) ==
  IF ms = <<>> THEN <<>>
  ELSE LET v == HeaderValues(Head(ms), {"From", "FROM"})
       IN (IF v = None THEN <<>> ELSE <<AddressOf(v[1])>>) \o FromAddresses(Tail(ms))

\* s without the elements that occurred before
FirstOccurrences(s) ==
  LET keep == {k \in DOMAIN s : \A j \in 1..(k - 1) : s[j] # s[k]}
  IN [n \in 1..Cardinality(keep) |->
        s[CHOOSE k \in keep : Cardinality({j \in keep : j <= k}) = n]]

\* C13: the participants of a reduced Thread hold every From address exactly
\* once, at the position of its first occurrence in message order, also when
\* the repeated address is not adjacent (a, b, a gives [a, b]).
C13_ParticipantsFirstOccurrences ==
  Reduced => ReducedThread.participants = FirstOccurrences(FromAddresses(InputMessages))

\* C14: for a non-empty message list the reduced Thread takes subject, snippet,
\* labels and date from the last message (with the defaults "(No Subject)", "",
\* no labels and the current time where that message lacks them), and
\* unread_count is the number of messages of the whole list labelled UNREAD.
C14_LastMessageFields ==
  (Reduced /\ InputMessages # <<>>) =>
    LET m == InputMessages[Len(InputMessages)]
        subject == HeaderValues(m, {"Subject", "SUBJECT"})
        t == ReducedThread
    IN /\ t.subject = IF subject = None THEN <<"(No Subject)">> ELSE subject[1]
       /\ t.snippet = IF m.snippet = None THEN "" ELSE m.snippet[1]
       /\ t.labels = IF m.label_ids = None THEN <<>> ELSE m.label_ids[1]
       /\ t.last_message_date =
            IF m.internal_date # None
               /\ \A k \in DOMAIN m.internal_date[1] : IsDigit(m.internal_date[1][k])
            THEN DateTimeAt(DecimalValue(m.internal_date[1])) ELSE UtcNow
       /\ t.unread_count =
            Cardinality({k \in DOMAIN InputMessages :
                           /\ InputMessages[k].label_ids # None
                           /\ \E j \in DOMAIN InputMessages[k].label_ids[1] :
                                InputMessages[k].label_ids[1][j] = "UNREAD"})

C14_Witness ==
  /\ Reduced
  /\ Len(InputMessages) = 3
  /\ ReducedThread.subject = <<"S1">>
  /\ ReducedThread.snippet = "s1"
  /\ ReducedThread.labels = <<"INBOX">>
  /\ ReducedThread.last_message_date = DateTimeAt(10)
  /\ ReducedThread.unread_count = 2
  /\ HeaderValues(InputMessages[1], {"Subject", "SUBJECT"}) = Some(<<"S2">>)

\* the attachments that are images below 100,000 bytes, and the first three
QualifyingImages(atts) ==
  {k \in DOMAIN atts : atts[k].mime_type[1] = "image" /\ atts[k].size < 100000}

FirstThree(atts) ==
  {k \in QualifyingImages(atts) : Cardinality({j \in QualifyingImages(atts) : j < k}) < 3}

\* C15: one reduction attempts at most 3 inline-image fetches, for the first 3
\* attachments in list order that are images below 100,000 bytes; every other
\* attachment keeps inline_data = None whatever those fetches returned.
C15_AtMostThreeInlineFetches ==
  (call.fn = "thread_detail_to_thread" /\ call.pc \in {"calendar", "return", "done", "panicked"}
     /\ call.attachments # <<>>) =>
    LET atts == call.attachments
        reqs == call.imageFetches
    IN /\ Len(reqs) <= 3
       /\ Len(reqs) = Cardinality(FirstThree(atts))
       /\ \A n \in DOMAIN reqs :
            \E k \in FirstThree(atts) :
              /\ Cardinality({j \in FirstThree(atts) : j <= k}) = n
              /\ reqs[n] = <<atts[k].message_id, atts[k].attachment_id>>
       /\ \A k \in DOMAIN atts : k \notin FirstThree(atts) => atts[k].inline_data = None
       /\ Reduced => ReducedThread.attachments = atts

C15_Witness ==
  /\ Reduced
  /\ Len(ReducedThread.attachments) = 5
  /\ QualifyingImages(ReducedThread.attachments) = 1..5
  /\ Len(call.imageFetches) = 3
  /\ ReducedThread.attachments[1].inline_data # None
  /\ ReducedThread.attachments[2].inline_data = None
  /\ ReducedThread.attachments[3].inline_data # None
  /\ ReducedThread.attachments[4].inline_data = None
  /\ ReducedThread.attachments[5].inline_data = None

\* the calendar-classified attachments, and what fetching and parsing attachment
\* k gives
CalendarClassified(atts) ==
  {k \in DOMAIN atts :
     \/ atts[k].mime_type \in {<<"text", "/", "calendar">>, <<"application", "/", "ics">>}
     \/ (Len(atts[k].filename) >= 2 /\ atts[k].filename[Len(atts[k].filename)] = "ics"
         /\ atts[k].filename[Len(atts[k].filename) - 1] = ".")}

ParsedEvent(k) ==
  LET a == call.attachments[k]
      data == get_attachment(call.detail, a.message_id, a.attachment_id)
      decoded == IF data.tag = "Ok" THEN base64_decode(normalize(data.data)) ELSE [tag |-> "Err"]
      text == IF decoded.tag = "Ok" THEN from_utf8(decoded.bytes) ELSE [tag |-> "Err"]
  IN IF text.tag = "Ok" THEN parse_ics_content(text.text, 0) ELSE None

Succeeds(k) == ParsedEvent(k) # None /\ ParsedEvent(k) # Panic

\* the elements of S in increasing order
Ascending(S) ==
  [n \in 1..Cardinality(S) |-> CHOOSE k \in S : Cardinality({j \in S : j <= k}) = n]

Grouped == call.fn = "group_threads_by_date" /\ call.pc = "done"
Groups == call.result[1]

RECURSIVE Flatten(_)
Flatten(gs) == IF gs = <<>> THEN <<>> ELSE Head(gs).threads \o Flatten(Tail(gs))

\* C17: group_threads_by_date puts every input thread into exactly one group:
\* the threads of all groups together are the input threads, none lost and none
\* twice, and a thread dated today is in the Today group only.
C17_GroupsPartitionInput ==
  Grouped =>
    LET flat == Flatten(Groups)
    IN /\ Len(flat) = Len(call.threads)
       /\ \A i \in DOMAIN call.threads :
            Cardinality({j \in DOMAIN flat : flat[j] = call.threads[i]}) = 1
       /\ \A i \in DOMAIN call.threads :
            date_naive(call.threads[i].last_message_date, call.offset)
                = date_naive(call.nows[i], call.offset) =>
              \A g \in DOMAIN Groups :
                (\E j \in DOMAIN Groups[g].threads : Groups[g].threads[j] = call.threads[i])
                  <=> Groups[g].label = "Today"

C17_Witness ==
  /\ Grouped
  /\ Len(call.threads) = 3
  /\ Len(Groups) = 2
  /\ Groups[1].label = "Today"
  /\ Len(Groups[1].threads) = 2
  /\ Groups[2].label = "Older"

\* the position of a label in the fixed order
OrderIndex(label) == CHOOSE n \in DOMAIN order : order[n] = label

C19_ClassifyDateByWeek ==
  (call.fn = "classify_date" /\ call.pc = "done") =>
    LET today == (call.now + call.offset) \div 24
        msg_date == (call.date + call.offset) \div 24
        monday == CHOOSE d \in (today - 6)..today : (d + 3) % 7 = 0
        in_week == msg_date \in monday..(monday + 6)
        bucket == call.result[1]
    IN /\ bucket = "ThisWeek" <=> (msg_date \notin {today, today - 1} /\ in_week)
       /\ (msg_date \notin {today, today - 1} /\ ~in_week) =>
            bucket = IF msg_date \in (today - 30)..today THEN "Last30Days" ELSE "Older"

\* the lines of a text without surrounding blanks
TrimmedLines(text) == [k \in 1..Len(lines(text)) |-> trim(lines(text)[k])]

\* the first VEVENT of the text has no DTSTART line: no line from the first
\* BEGIN:VEVENT line to the END:VEVENT line that follows it (or to the end)
\* begins with DTSTART
NoDtstartInFirstEvent(text) ==
  LET ls == TrimmedLines(text)
      begins == {k \in DOMAIN ls : ls[k] = BEGIN_VEVENT}
  IN begins # {} /\
     LET b == CHOOSE k \in begins : \A j \in begins : k <= j
         ends == {k \in DOMAIN ls : k > b /\ ls[k] = END_VEVENT}
         e == IF ends = {} THEN Len(ls) + 1 ELSE CHOOSE k \in ends : \A j \in ends : k <= j
     IN \A k \in (b + 1)..(e - 1) : ls[k] = <<>> \/ ls[k][1] # "DTSTART"

\* C20: for every ICS text that has the VCALENDAR and VEVENT markers but no
\* DTSTART property in its first VEVENT, parse_ics_content returns nothing,
\* whatever other properties are present.
C20_NoDtstartNoEvent ==
  (call.fn = "parse_ics_content" /\ call.pc # "start"
     /\ \E k \in DOMAIN TrimmedLines(call.ics_data) :
          TrimmedLines(call.ics_data)[k] = BEGIN_VCALENDAR
     /\ NoDtstartInFirstEvent(call.ics_data)) =>
    call.pc = "done" /\ call.result = None

\* ---- ICS datetimes
AllDigits(s) == \A i \in DOMAIN s : IsDigit(s[i])
NumberAt(s, a, b) == DecimalValue(SubSeq(s, a, b))

\* the reference interpretation: the days from 1970-01-01 to a date of the
\* proleptic Gregorian calendar, by the closed formula over 400-year eras
RefDays(y, m, d) ==
  LET yy == IF m <= 2 THEN y - 1 ELSE y
      era == yy \div 400
      yoe == yy - era * 400
      doy == (153 * (IF m > 2 THEN m - 3 ELSE m + 9) + 2) \div 5 + d - 1
      doe == yoe * 365 + yoe \div 4 - yoe \div 100 + doy
  IN era * 146097 + doe - 719468

RefLastDay(y, m) ==
  CASE m = 2 -> IF y % 400 = 0 \/ (y % 4 = 0 /\ y % 100 # 0) THEN 29 ELSE 28
    [] m \in {4, 6, 9, 11} -> 30
    [] OTHER -> 31

WellFormedDate(s) ==
  /\ Len(s) >= 8 /\ AllDigits(SubSeq(s, 1, 8))
  /\ NumberAt(s, 5, 6) \in 1..12
  /\ NumberAt(s, 7, 8) \in 1..RefLastDay(NumberAt(s, 1, 4), NumberAt(s, 5, 6))

\* YYYYMMDD
IsDateValue(s) == Len(s) = 8 /\ WellFormedDate(s)

\* YYYYMMDDTHHMMSSZ
IsUtcValue(s) ==
  /\ Len(s) = 16 /\ WellFormedDate(s) /\ s[9] = "T" /\ s[16] = "Z"
  /\ AllDigits(SubSeq(s, 10, 15))
  /\ NumberAt(s, 10, 11) \in 0..23 /\ NumberAt(s, 12, 13) \in 0..59 /\ NumberAt(s, 14, 15) \in 0..59

RefMidnight(s) == RefDays(NumberAt(s, 1, 4), NumberAt(s, 5, 6), NumberAt(s, 7, 8)) * 86400

DatetimeParsed == call.fn = "parse_ics_datetime" /\ call.pc = "done"

\* C21: parse_ics_datetime agrees with the reference interpretation for every
\* well-formed value: YYYYMMDD gives all_day = TRUE and midnight UTC of that
\* date, YYYYMMDDTHHMMSSZ gives all_day = FALSE and the UTC instant of its
\* literal fields, whatever the host's timezone is.
C21_DatetimeMatchesReference ==
  DatetimeParsed =>
    /\ IsDateValue(call.value) => call.result = Some(<<RefMidnight(call.value), TRUE>>)
    /\ IsUtcValue(call.value) =>
         call.result = Some(<<RefMidnight(call.value) + NumberAt(call.value, 10, 11) * 3600
                                + NumberAt(call.value, 12, 13) * 60 + NumberAt(call.value, 14, 15),
                              FALSE>>)

\* a UTC datetime on a leap day, late in the day, has been parsed on a host
\* that is not on UTC
C21_Witness ==
  /\ DatetimeParsed /\ call.offset # 0
  /\ IsUtcValue(call.value) /\ NumberAt(call.value, 5, 8) = 229
  /\ NumberAt(call.value, 10, 11) = 23 /\ call.result # None

\* ---- partial events
\* the trimmed lines of the first VEVENT: from the first BEGIN:VEVENT line to
\* the END:VEVENT line that follows it (or to the end of the text)
FirstEventLines(text) ==
  LET ls == TrimmedLines(text)
      begins == {k \in DOMAIN ls : ls[k] = BEGIN_VEVENT}
  IN IF begins = {} THEN <<>>
     ELSE LET b == CHOOSE k \in begins : \A j \in begins : k <= j
              ends == {k \in DOMAIN ls : k > b /\ ls[k] = END_VEVENT}
              e == IF ends = {} THEN Len(ls) + 1 ELSE CHOOSE k \in ends : \A j \in ends : k <= j
          IN SubSeq(ls, b + 1, e - 1)

\* the value is neither YYYYMMDD nor YYYYMMDDTHHMMSS with an optional Z
MatchesNoShape(v) ==
  LET s == trim(v)
  IN /\ ~(Len(s) = 8 /\ AllDigits(s))
     /\ ~(Len(s) \in {15, 16} /\ s[9] = "T" /\ AllDigits(SubSeq(s, 1, 8))
          /\ AllDigits(SubSeq(s, 10, 15)) /\ (Len(s) = 16 => s[16] = "Z"))

\* the line gives the named property a value of neither shape
BadDatetimeLine(line, name) ==
  /\ line # <<>> /\ line[1] = name
  /\ \E k \in DOMAIN line :
       /\ line[k] = ":" /\ \A j \in 1..(k - 1) : line[j] # ":"
       /\ MatchesNoShape(SubSeq(line, k + 1, Len(line)))

\* the first line of the event that names the property gives it a bad value
BadDatetime(text, name) ==
  LET ls == FirstEventLines(text)
  IN \E k \in DOMAIN ls :
       /\ BadDatetimeLine(ls[k], name)
       /\ \A j \in 1..(k - 1) : ls[j] = <<>> \/ ls[j][1] # name

\* C22: parse_ics_content returns no partial events: when the DTSTART or the
\* DTEND value of the event matches neither accepted shape, the parse returns
\* nothing rather than an event with that field left out.
C22_NoPartialEvents ==
  (call.fn = "parse_ics_content" /\ call.pc = "done"
     /\ (BadDatetime(call.ics_data, "DTSTART") \/ BadDatetime(call.ics_data, "DTEND"))) =>
    call.result = None

\* ---- pull_from_icloud
PullDone == call.fn = "pull_from_icloud" /\ call.pc = "done"
LocalIds(d) == {d.accounts[i].id : i \in DOMAIN d.accounts}
Referential(d) == \A c \in d.cards : c.account_id \in LocalIds(d)

\* C23: pull_from_icloud never inserts a card whose owning account cannot be
\* resolved locally: every card it inserts carries the id of a local account,
\* so a cache in which every card referenced a local account before the pull
\* is one in which every card does after it.
C23_PullInsertsOnlyResolvedCards ==
  PullDone =>
    /\ \A k \in DOMAIN call.log :
         call.log[k].op = "insert" => call.log[k].card.account_id \in LocalIds(db)
    /\ \A c \in db.cards : c \notin call.before.cards => c.account_id \in LocalIds(db)
    /\ Referential(call.before) => Referential(db)

\* among several local accounts, a remote card of an unknown account was
\* inserted under a local account
C23_Witness ==
  /\ PullDone /\ Len(db.accounts) = 2 /\ Referential(call.before)
  /\ \E k \in DOMAIN call.log :
       /\ call.log[k].op = "insert" /\ call.icloud_cards[k].account_id \notin LocalIds(db)
       /\ call.log[k].card \in db.cards

\* the emails are equal up to the case of their letters
Fold(email) == IF email \in {"User@X.com", "user@x.com"} THEN "USER@X.COM" ELSE email

\* the local accounts that the remote mapping names for the account id by email
MappedAccounts(d, mappings, account_id) ==
  {d.accounts[i] : i \in {j \in DOMAIN d.accounts :
     \E p \in mappings : p[1] = account_id /\ Fold(p[2]) = Fold(d.accounts[j].email)}}

\* no other remote card that was processed has the id of the k-th one
OnlyEntryOfItsId(k) ==
  \A j \in DOMAIN call.log : j # k => call.icloud_cards[j].id # call.icloud_cards[k].id

\* C24: for each remote card whose account_id is not a local account id: if
\* the remote mapping has an email for it and a local account has that email
\* up to case, the card gets that account's id; else if exactly one local
\* account exists, the card gets its id; else the card is skipped, neither
\* inserted nor updated.
C24_RemapOrder ==
  PullDone =>
    \A k \in DOMAIN call.log :
      LET remote == call.icloud_cards[k]
          mapped == MappedAccounts(call.before, call.account_mappings, remote.account_id)
      IN remote.account_id \notin LocalIds(call.before) =>
           IF mapped # {}
           THEN call.log[k].op # "skip" /\ \E a \in mapped : call.log[k].card.account_id = a.id
           ELSE IF Len(call.before.accounts) = 1
           THEN call.log[k].op # "skip"
                /\ call.log[k].card.account_id = call.before.accounts[1].id
           ELSE /\ call.log[k].op = "skip"
                /\ OnlyEntryOfItsId(k) =>
                     {c \in db.cards : c.id = remote.id} = {c \in call.before.cards : c.id = remote.id}

\* the card of OLD1, mapped to user@x.com, went to NEW1 of User@X.com although
\* another local account exists
C24_Witness ==
  /\ PullDone /\ Len(db.accounts) = 2
  /\ <<"OLD1", "user@x.com">> \in call.account_mappings
  /\ \A i \in DOMAIN db.accounts : db.accounts[i].email # "user@x.com"
  /\ \E k \in DOMAIN call.log :
       /\ call.icloud_cards[k].account_id = "OLD1" /\ call.log[k].op = "insert"
       /\ call.log[k].card.account_id = "NEW1" /\ call.log[k].card \in db.cards

\* the k-th remote card is the last one of its id that was processed
LastEntryOfItsId(k) ==
  \A j \in DOMAIN call.log : j > k => call.log[j].card.id # call.log[k].card.id

\* C25: remote always wins on id collision: after pull_from_icloud, for every
\* processed remote card whose id already existed locally, the local card with
\* that id equals the remote card (after remapping) in every field, account_id
\* included. Of several remote cards of one id, the last one is compared.
C25_RemoteWinsOnCollision ==
  PullDone =>
    \A k \in DOMAIN call.log :
      (/\ call.log[k].op # "skip" /\ LastEntryOfItsId(k)
       /\ \E c \in call.before.cards : c.id = call.log[k].card.id) =>
        \A c \in db.cards : c.id = call.log[k].card.id => c = call.log[k].card

\* C26: pull_from_icloud returns true exactly when the local card store after
\* the call differs from the store before it, and false otherwise.
C26_ReturnsWhetherChanged ==
  (PullDone /\ call.result.tag = "Ok") =>
    (call.result.value <=> db.cards # call.before.cards)

\* ---- calendar time range
\* C28: for a query whose time range is an upcoming duration d (calendar:7d),
\* get_time_range returns a start equal to today's midnight UTC and an end
\* equal to that start plus d.
C28_UpcomingStartsAtMidnight ==
  (call.fn = "get_time_range" /\ call.pc = "done" /\ call.time_range.kind = "Upcoming") =>
    /\ call.result[1][1] = call.now - (call.now % HoursPerDay)
    /\ call.result[1][2] = call.result[1][1] + call.time_range.duration

\* ---- card mirror
CardCommandReturnedOk == call.fn \in {"create_card", "update_card", "delete_card", "reorder_cards"}
                           /\ call.pc = "done" /\ call.result.tag = "Ok"

\* the store holds the cards of all local accounts and the accounts' emails
MirrorIsCurrent ==
  /\ icloud.posta_cards # None /\ icloud.posta_cards[1].kind = "json"
  /\ StoredCards(icloud) = {c \in db.cards : c.account_id \in LocalIds(db)}
  /\ icloud.posta_account_mappings # None /\ icloud.posta_account_mappings[1].kind = "json"
  /\ icloud.posta_account_mappings[1].value =
       {<<db.accounts[i].id, db.accounts[i].email>> : i \in DOMAIN db.accounts}

Regressed(a) ==
  /\ stored[a] # None
  /\ call.newest[a] # None
  /\ stored[a][1] < call.newest[a][1]

\* invocation p has returned Ok
SyncedOk(p) == proc[p].pc = "done" /\ proc[p].result # None /\ proc[p].result[1].tag = "Ok"

\* C29: with syncs one at a time and a server whose history id never decreases,
\* no account's stored cursor is ever older than one stored before, and after
\* each successful sync (delta, expiry fallback or first) the account has a
\* cursor at least as recent as the one the sync read
C29_CursorNeverDecreases ==
  /\ \A a \in Accounts : ~Regressed(a)
  /\ \A p \in DOMAIN proc :
       SyncedOk(p) =>
         LET a == proc[p].account_id
         IN /\ stored[a] # None
            /\ proc[p].stored_history_id # None => stored[a][1] >= proc[p].stored_history_id[1]

\* a successful sync has moved a stored cursor forward after the mailbox changed
C29_Witness ==
  \E p \in DOMAIN proc :
    /\ SyncedOk(p)
    /\ proc[p].stored_history_id # None
    /\ stored[proc[p].account_id] # None
    /\ stored[proc[p].account_id][1] > proc[p].stored_history_id[1]
    /\ call.newest[proc[p].account_id] = stored[proc[p].account_id]

\* C30: a stored cursor older than one stored earlier arises from interleaved
\* invocations for the account, and only from them: no account regresses unless
\* two invocations for it were in flight together
C30_RegressionNeedsOverlap ==
  \A a \in Accounts : Regressed(a) => call.overlapped[a]

\* both invocations read the same cursor of one account, both returned Ok, and
\* the row holds the cursor of one while the other had stored a newer one
C30_Witness ==
  \E a \in Accounts :
    /\ \A p \in Racers : SyncedOk(p) /\ proc[p].account_id = a /\ proc[p].cursor_read
    /\ proc[1].stored_history_id = proc[2].stored_history_id
    /\ \E p, q \in Racers :
         /\ stored[a] = Some(proc[p].result[1].new_history_id)
         /\ call.newest[a] = Some(proc[q].result[1].new_history_id)
    /\ Regressed(a)
    /\ call.overlapped[a]

\* ---------------------------------------------------------------- inline images and attachments
\* the endpoint's answer for the attachment itself
OwnAnswer(a) ==
  IF a.attachment_id \in DOMAIN call.detail.fetch
       /\ call.detail.fetch[a.attachment_id].message_id = a.message_id
  THEN call.detail.fetch[a.attachment_id].result
  ELSE FetchErr

\* the attachment was asked for as an inline image
InlineFetched(a) ==
  \E j \in DOMAIN call.imageFetches :
    call.imageFetches[j] = <<a.message_id, a.attachment_id>>

\* C31: whatever the inline fetches answer, the reduction returns a Thread; an
\* attachment whose inline fetch failed or was not made has no inline data, and
\* one whose fetch succeeded holds the data served for its own message id and
\* attachment id
C31_FailedImageFetchIsLocal ==
  Reduced =>
    /\ call.result[1].tag = "Ok"
    /\ \A k \in DOMAIN call.result[1].thread.attachments :
         LET a == call.result[1].thread.attachments[k]
         IN a.inline_data =
              IF InlineFetched(a) /\ OwnAnswer(a).tag = "Ok" THEN Some(OwnAnswer(a).data)
              ELSE None

\* three inline fetches, the second failed, the first and third served
\* different data, and each attachment holds its own
C31_Witness ==
  /\ Reduced
  /\ Len(call.imageFetches) = 3
  /\ LET att == call.result[1].thread.attachments
     IN \E i, j, k \in DOMAIN att :
          /\ i < j /\ j < k
          /\ InlineFetched(att[i]) /\ InlineFetched(att[j]) /\ InlineFetched(att[k])
          /\ att[i].inline_data # None /\ att[k].inline_data # None
          /\ att[i].inline_data # att[k].inline_data
          /\ att[j].inline_data = None /\ OwnAnswer(att[j]).tag = "Err"

\* the descriptors of message m of the input
InfosOf(m) ==
  IF InputMessages[m].payload = None THEN <<>>
  ELSE extract_attachments_from_parts(InputMessages[m].payload[1].parts)

\* the number of descriptors of the messages before message m
RECURSIVE InfosBefore(_)
InfosBefore(m) == IF m = 1 THEN 0 ELSE InfosBefore(m - 1) + Len(InfosOf(m - 1))

\* C32: the attachments of the returned Thread are the descriptors of message
\* 1, then those of message 2, and so on, each with the id of its message, so
\* every message_id is the id of a message of the thread; has_attachment tells
\* whether there is any
C32_AttachmentsConcatenated ==
  Reduced =>
    LET thread == call.result[1].thread
        n == Len(InputMessages)
    IN /\ Len(thread.attachments) = InfosBefore(n + 1)
       /\ \A m \in 1..n : \A t \in DOMAIN InfosOf(m) :
            LET a == thread.attachments[InfosBefore(m) + t]
            IN /\ a.message_id = InputMessages[m].id
               /\ a.attachment_id = InfosOf(m)[t].attachment_id
               /\ a.filename = InfosOf(m)[t].filename
               /\ a.mime_type = InfosOf(m)[t].mime_type
               /\ a.size = InfosOf(m)[t].size
               /\ a.content_id = InfosOf(m)[t].content_id
       /\ \A k \in DOMAIN thread.attachments :
            \E m \in 1..n : thread.attachments[k].message_id = InputMessages[m].id
       /\ thread.has_attachment <=> thread.attachments # <<>>

\* both messages of the thread contribute attachments
C32_Witness ==
  /\ Reduced
  /\ Len(InputMessages) = 2
  /\ Len(InfosOf(1)) >= 2 /\ Len(InfosOf(2)) >= 2
  /\ call.result[1].thread.has_attachment
  /\ LET att == call.result[1].thread.attachments
     IN att[1].message_id = MessageId(1) /\ att[Len(att)].message_id = MessageId(2)

\* ---------------------------------------------------------------- part trees
\* the parts from the payload down to part i
RECURSIVE RootPath(_)
RootPath(i) == IF call.parent[i] = 0 THEN <<i>> ELSE Append(RootPath(call.parent[i]), i)

\* part a comes before part b when the tree is walked parent first, children
\* in list order: a is an ancestor of b, or where their paths part a's branch
\* is the earlier one
ComesBefore(a, b) ==
  LET pa == RootPath(a)
      pb == RootPath(b)
  IN \/ Len(pa) < Len(pb) /\ SubSeq(pb, 1, Len(pa)) = pa
     \/ \E k \in 1..Min(Len(pa), Len(pb)) :
          /\ SubSeq(pa, 1, k - 1) = SubSeq(pb, 1, k - 1)
          /\ pa[k] < pb[k]

\* the parts with an attachment id and a size above zero
SizedParts == {i \in DOMAIN call.kind : call.kind[i] = "sized"}

PartsExtracted == call.fn = "extract_attachments_from_parts" /\ call.pc = "done"

\* C33: extract_attachments_from_parts returns one descriptor for each part, at
\* any depth and under any parent, that has an attachment id and a size above
\* zero, none for any other part, in the order of a parent-first walk
C33_DescriptorsInPreOrder ==
  PartsExtracted =>
    LET r == call.result
    IN /\ Len(r) = Cardinality(SizedParts)
       /\ {r[k].attachment_id : k \in DOMAIN r} = SizedParts
       /\ \A k \in DOMAIN r : r[k].size > 0
       /\ \A j, k \in DOMAIN r : j < k => ComesBefore(r[j].attachment_id, r[k].attachment_id)

\* a descriptor of a part nested under a part that has none, returned before
\* the descriptor of a part with a smaller number
C33_Witness ==
  /\ PartsExtracted
  /\ \E j, k \in DOMAIN call.result :
       /\ j < k
       /\ call.result[j].attachment_id > call.result[k].attachment_id
       /\ call.parent[call.result[j].attachment_id] # 0
       /\ call.kind[call.parent[call.result[j].attachment_id]] # "sized"

\* ---------------------------------------------------------------- threads of a delta sync
\* invocation p returned Ok from the delta arm
DeltaReturned(p) == Returned(p, "Ok") /\ DeltaOk(p) /\ ~Res(p).is_full_sync

\* the thread ids of the Threads the sync returned
ReturnedThreadIds(p) ==
  {Res(p).modified_threads[i].gmail_thread_id : i \in DOMAIN Res(p).modified_threads}

\* C34 as stated: a delta sync that stored its new cursor returned a Thread for
\* every thread id the delta reported as touched
C34_NoTouchedThreadDropped ==
  \A p \in Procs :
    (DeltaReturned(p) /\ stored[Acct(p)] = Some(Res(p).new_history_id)) =>
      proc[p].touched \subseteq ReturnedThreadIds(p)

\* C34 as amended: a delta sync that stored its new cursor requested every
\* touched thread id and returned a Thread of the account for exactly the
\* touched ids whose detail the batch response or the sequential fallback
\* delivered
C34_FetchedTouchedThreadsReturned ==
  \A p \in Procs :
    (DeltaReturned(p) /\ stored[Acct(p)] = Some(Res(p).new_history_id)) =>
      /\ ReturnedThreadIds(p) = proc[p].touched \cap proc[p].obtained
      /\ proc[p].touched = UNION {Range(proc[p].batchReqs[k]) : k \in DOMAIN proc[p].batchReqs}
      /\ \A i \in DOMAIN Res(p).modified_threads :
           Res(p).modified_threads[i].account_id = Acct(p)

\* the cursor moved forward past two touched threads; the batch request
\* failed, the fallback delivered one of them, and that one was returned
C34_Witness ==
  \E p \in Procs :
    /\ DeltaReturned(p)
    /\ proc[p].stored_history_id = Some(1)
    /\ stored[Acct(p)] = Some(2)
    /\ proc[p].touched = {"T1", "T2"}
    /\ proc[p].failedChunks # {}
    /\ ReturnedThreadIds(p) = {"T2"}

\* ---------------------------------------------------------------- a pull that fails
\* C38: when pull_from_icloud returns an error, the cards table is as it was
\* before the call
C38_FailedPullChangesNothing ==
  (PullDone /\ call.result.tag = "Err") => db.cards = call.before.cards

\* ---------------------------------------------------------------- delete_account, then a pull
\* C37: after delete_account(A) and a pull, the cache holds no card that was a
\* card of A before the deletion, neither under A's id nor under the id of
\* another account
C37_DeletedAccountCardsStayDeleted ==
  (PullDone /\ "removed" \in DOMAIN call) =>
    \A c \in db.cards : c.id \notin {r.id : r \in call.removed}

\* ---------------------------------------------------------------- commands that run together
\* command c has returned
CommandReturned(c) == Cmd(c).pc = "done"

\* C35: once two card-mutation commands that ran together have both returned,
\* the card list in the store is the set of the cards in the cache
C35_MirrorCurrentAfterConcurrentMutations ==
  (/\ call.fn = "commands"
   /\ \A c \in Racers : Cmd(c).kind \in CardMutations /\ CommandReturned(c)) =>
    StoredCards(icloud) = db.cards

\* command c waits for a lock that is held
Blocked(c) ==
  \/ Cmd(c).pc \in {"lock_db", "sync_lock_db", "pull_lock_db"} /\ call.db_lock # 0
  \/ Cmd(c).pc \in {"sync_lock_icloud", "pull_lock_icloud"} /\ call.icloud_lock # 0

\* C36: no command holds the cache's lock and the store's lock together, a
\* command that has returned holds neither, and the commands never all wait:
\* whenever one waits for a lock, another is running and not waiting
C36_NeverBothLocks ==
  call.fn = "commands" =>
    /\ \A c \in Racers : ~(call.db_lock = c /\ call.icloud_lock = c)
    /\ \A c \in Racers :
         Cmd(c).pc \in {"new", "done"} => (call.db_lock # c /\ call.icloud_lock # c)
    /\ \A c \in Racers :
         Blocked(c) => \E o \in Racers : Cmd(o).pc \notin {"new", "done"} /\ ~Blocked(o)

\* pull_from_icloud holds the cache's lock while a card command, in
\* sync_cards_to_icloud, holds the store's lock
C36_Witness ==
  /\ call.fn = "commands"
  /\ \E c, o \in Racers :
       /\ Cmd(c).kind = "pull_from_icloud" /\ Cmd(c).pc = "pull_merge" /\ call.db_lock = c
       /\ Cmd(o).kind \in CardMutations /\ Cmd(o).pc = "sync_write" /\ call.icloud_lock = o

\* ---------------------------------------------------------------- sign-in
\* C39: a token request is sent only when a flow was pending and the state
\* received equals the state issued for it; a different state, or none, never
\* leads to a token request
C39_TokenRequestNeedsIssuedState ==
  (call.fn = "auth" /\ call.sent # None) =>
    (call.issued # None /\ call.received_state = call.issued)

====
